---- MODULE Spec2Model ----
(***************************************************************************)
(* State-machine model of the voidium-connect extension:                   *)
(*   - the connection state (state.ts) and the configuration it is         *)
(*     derived from (config.ts),                                           *)
(*   - the status poller (statusBar.ts: StatusBarController),              *)
(*   - the directory reveal engine (treeView.ts:                           *)
(*     PterodactylTreeDataProvider),                                       *)
(*   - the content read with retries (fsProvider.ts: readFile),            *)
(*   - the other operations of the filesystem bridge and its stat cache    *)
(*     (fsProvider.ts: PterodactylFileSystemProvider).                     *)
(* JavaScript runs one task at a time: every action below is one task      *)
(* (an event handler, a timer callback, or the continuation of an await)   *)
(* together with the microtasks it leaves behind.                          *)
(***************************************************************************)
EXTENDS Integers, Sequences, FiniteSets, Bags, TLC

(***************************************************************************)
(* Bounds of the model.                                                    *)
(***************************************************************************)
\* external events (ticks, commands, configuration changes) in one behaviour
MaxEvents == 5
\* getChildren() calls in one behaviour
MaxGetChildren == 3
\* refresh() calls of the tree provider in one behaviour
MaxRefreshes == 2
\* readFile() calls in one behaviour
MaxReads == 2
\* stat() calls in one behaviour
MaxStats == 3
\* calls of the other bridge operations in one behaviour
MaxOps == 2
\* init commands (addPanel() calls made by the user)
MaxConnects == 1
\* settings changes, commands and authentication failures during connect flows
MaxPanelEvents == 1
\* items dragged in one drop
MaxBatch == 2
\* drops in one behaviour
MaxDrops == 1
\* calls of stat and of the mutating operations in one behaviour
MaxMutations == 3

(***************************************************************************)
(* Program constants.                                                      *)
(***************************************************************************)
HARD_CODED_PANEL_URL == "https://voidium.uk"
\* delay of the trailing refresh scheduled by requestRefresh's finally handler
SettleDelay == 250
\* delay of the refresh scheduled after an accepted power signal
PowerDelay == 750

\* values the two persisted settings can take ("" is unset)
ServerIds == {"a1b2c3"}
ApiKeys == {"key1"}
\* signals of the power commands
PowerSignals == {"start", "stop", "restart", "kill"}
\* current_state values the resources endpoint reports
RemoteStates == {"starting", "running", "offline"}
\* answers of the power endpoint: 204, another status, or a transport failure
PowerAnswers == {"204", "500", "transport"}

\* readFile: const maxRetries = 3
maxRetries == 3
\* HTTP statuses the panel answers a content fetch with
HttpStatuses == {200, 401, 403, 404, 422, 429, 500, 503}
\* file contents
Payloads == {"bytes1", "bytes2"}

\* stat: setTimeout(..., 10_000) evicts the cache entry
CacheTtl == 10000
\* paths the bridge is called with: the root and one entry of the root folder
RootPath == "/"
Paths == {RootPath, "/new.txt"}
\* attributes the parent listing may report for the entry (mode[2] is "w" or not)
RemoteAttributes ==
  { [is_file |-> TRUE, is_symlink |-> FALSE, writable |-> TRUE, size |-> 1],
    [is_file |-> TRUE, is_symlink |-> FALSE, writable |-> FALSE, size |-> 2],
    [is_file |-> FALSE, is_symlink |-> FALSE, writable |-> TRUE, size |-> 0],
    [is_file |-> FALSE, is_symlink |-> TRUE, writable |-> TRUE, size |-> 0] }
\* destinations of rename and copy
Destinations == {"/copy.txt", "/dir/new.txt"}
\* an amount of time that passes between two tasks
Delays == {CacheTtl \div 2, CacheTtl}

\* directory keys of the tree: the root and one folder
Dirs == {"/", "/dir"}
\* entries of a remote listing: name and the type readDirectory derives
DirEntry(name) == <<name, "Directory">>
FileEntry(name) == <<name, "File">>
SymlinkFileEntry(name) == <<name, "SymlinkFile">>
SymlinkDirEntry(name) == <<name, "SymlinkDirectory">>
\* listings the panel may answer with (remote order)
RemoteListings ==
  { <<>>,
    <<FileEntry("c.txt")>>,
    <<SymlinkFileEntry("b.txt"), DirEntry("B"), SymlinkDirEntry("a")>> }

\* an entry of json.data: the attributes readDirectory reads
FileObject(name, isFile, isSymlink) ==
  [name |-> name, is_file |-> isFile, is_symlink |-> isSymlink]
\* the data arrays the list endpoint may answer with (remote order)
RemoteData ==
  { <<>>,
    <<FileObject("c.txt", TRUE, FALSE)>>,
    <<FileObject("b.txt", TRUE, FALSE), FileObject("a", FALSE, FALSE)>>,
    <<FileObject("a", FALSE, TRUE), FileObject("B", FALSE, FALSE)>> }

VARIABLES
  \* configuration store (vscode settings "serverId" and "apiKey")
  cfgServerId, cfgApiKey,
  \* PanelService
  panelFlows,         \* the addPanel() calls suspended at an await, as a bag of
                      \* [pc, apiKey, serverId, changed]: where the call waits, its
                      \* locals, and whether it has changed the RuntimeState so far
  \* observation of the connect flow
  panelLast,          \* how the addPanel() call that ended last has ended
  onConnectedCalls,   \* onConnected invocations so far
  panelCalls,         \* init commands so far
  \* RuntimeState
  serverApiUrl, authHeader,
  \* StatusBarController
  refreshInFlight, refreshQueued, refreshInterval,
  refreshBodies,      \* refresh() bodies suspended at their fetch
  statusTimers,       \* pending setTimeout callbacks that call requestRefresh, by delay
  powerInFlight,      \* sendPowerSignal calls suspended at their fetch
  powerLast,          \* the sendPowerSignal the last task of the poller ended after its
                      \* fetch, if any: what it was answered and the message it showed
  statusText, openButtonShown,
  refreshLast,        \* how the last refresh() body ended: what its fetch was answered
                      \* and whether the body raised
  \* observation of the poller
  events,             \* external events so far
  callFlip,           \* flips at every requestRefresh() call
  callsDuring,        \* requestRefresh() calls that found the latest refresh running
  unserved,           \* a requestRefresh() call that no refresh body has started after
  \* PterodactylTreeDataProvider: the maps, as functions on their key sets
  allItemsByDirectory, visibleItemsByDirectory,
  loadInFlightByDirectory,   \* keys of the map of load promises
  refreshTargetByDirectory,  \* keys of the map (the value is the key's node)
  revealTimersByDirectory,   \* keys of the map of timer handles
  listings,           \* per directory: listing requests not yet answered, those
                      \* issued since the last refresh() (fresh) and before it (stale)
  revealPending,      \* per directory: pending reveal timers, the one whose handle
                      \* the map holds (tracked), the others (orphans), and the
                      \* others that were scheduled before the last refresh() (stale)
  \* observation of the tree provider
  treeOp,             \* the last operation of the provider and what it did
  awaitingFirst,      \* directories with no getChildren() since the last refresh()
  notifications,      \* per directory: notifications since its last listing answer
  failedDirs,         \* directories a load of which has failed since the last refresh()
  getChildrenCalls, refreshCalls,
  \* one readFile(uri) call of the bridge
  readPc,             \* "idle", "fetch" (awaiting the attempt), "delay" (awaiting
                      \* the backoff timer), "returned", "threw"
  readAttempt,        \* the loop variable attempt
  readLastError,      \* lastError
  readResult,         \* the payload returned or the error thrown
  \* observation of the call
  readFetches,        \* content-fetch requests issued by the call
  readOutcomes,       \* how each attempt ended, in order
  readDelays,         \* the backoff delays the call has started, in order
  readCalls,          \* readFile calls so far
  authWarnings,       \* "Authentication failed" prompts shown by the call
  authCallbacks,      \* onAuthenticationFailed invocations by the call
  \* PterodactylFileSystemProvider: the stat cache, as functions on the cache keys
  responseCache, responseCacheHits,
  evictTimers,        \* per path: the pending eviction timers, oldest first, each
                      \* with the time since it was started
  statInFlight,       \* per path: stat() calls suspended at their listing fetch
  \* observation of the stat cache
  storedAge,          \* per cache key: the time since the entry was stored
  storedUnder,        \* per cache key: serverApiUrl when the entry was stored
  lastStat,           \* the stat() call that ended last and what it did
  statCalls,          \* stat() calls so far
  \* one call of another bridge operation (or of stat through the same path)
  opCall,             \* the operation and its arguments
  opFollows,          \* the call follows a returned delete or rename of its own path
  opPc,               \* "idle", the fetch the call awaits ("probe", "precreate",
                      \* "prelist", "predelete", "copy", "decide"), "returned", "threw"
  opFileExists,       \* writeFile: fileExists
  opFileStat,         \* writeFile: fileStat
  opItems,            \* delete, readDirectory: the entries readDirectory returned
  opRenameFiles,      \* copy: the files entry in the body of its rename request
  opResult,           \* the error thrown ("ok" when the call returned)
  \* observation of the call
  opRequests,         \* the requests the call has issued, in order
  opAnswers,          \* how each request was answered: a status, 0 for a transport failure
  opWarnings,         \* "Authentication failed" prompts shown by the call
  opCallbacks,        \* onAuthenticationFailed invocations by the call
  opCalls,            \* calls so far
  \* PterodactylTreeDragAndDropController.handleDrop
  dropPc,             \* "idle", the bridge call the handler awaits ("readFile",
                      \* "writeFile", "delete"), "done"
  dropItems,          \* the dragged items from the one in hand on
  dropTarget,         \* targetUri, as its path segments
  \* observation of the drop
  dropBatch,          \* draggedItems
  dropCalls,          \* the bridge calls of the batch, in order, and how each ended
  dropReported,       \* the labels a "Failed to move" message was shown for
  dropRefreshes,      \* treeDataProvider.refresh() calls made by the handler
  dropCount,          \* drops so far
  remoteFiles         \* the files the panel holds, by path segments

connVars == <<cfgServerId, cfgApiKey, serverApiUrl, authHeader>>
statusVars == <<refreshInFlight, refreshQueued, refreshInterval, refreshBodies,
                statusTimers, powerInFlight, powerLast, statusText, refreshLast, openButtonShown,
                events, callFlip, callsDuring, unserved>>
treeVars == <<allItemsByDirectory, visibleItemsByDirectory, loadInFlightByDirectory,
              refreshTargetByDirectory, revealTimersByDirectory, listings,
              revealPending, treeOp, awaitingFirst, notifications, failedDirs,
              getChildrenCalls, refreshCalls>>
readVars == <<readPc, readAttempt, readLastError, readFetches, readOutcomes,
              readDelays, readResult, readCalls, authWarnings, authCallbacks>>
statVars == <<responseCache, responseCacheHits, evictTimers, statInFlight,
              storedAge, storedUnder, lastStat, statCalls>>
cacheVars == <<responseCache, responseCacheHits, evictTimers, storedAge, storedUnder>>
opVars == <<opCall, opFollows, opPc, opFileExists, opFileStat, opItems, opRenameFiles, opResult, opRequests, opAnswers, opWarnings,
            opCallbacks, opCalls>>
panelObs == <<panelLast, onConnectedCalls, panelCalls>>
dropVars == <<dropPc, dropItems, dropTarget, dropBatch, dropCalls, dropReported, dropRefreshes,
              dropCount, remoteFiles>>
vars == <<connVars, panelFlows, panelObs, statusVars, treeVars, readVars, statVars, opVars,
          dropVars>>

\* what the actions of one component leave alone
notPanel == <<treeVars, readVars, statVars, opVars, dropVars>>
notStatus == <<panelObs, treeVars, readVars, statVars, opVars, dropVars>>
notTree == <<panelObs, statusVars, readVars, statVars, opVars, dropVars>>
notRead == <<panelObs, statusVars, treeVars, statVars, opVars, dropVars>>
notStat == <<panelObs, statusVars, treeVars, readVars, opVars, dropVars>>
notOp == <<panelObs, statusVars, treeVars, readVars, statInFlight, lastStat, statCalls, dropVars>>

(***************************************************************************)
(* config.ts and state.ts                                                  *)
(***************************************************************************)
\* "" is the empty string of the source; a URL or header is the tuple of its parts
Empty == <<>>

getPanelUrl == HARD_CODED_PANEL_URL

\* serverId && serverId.trim() ? serverId : undefined   ("" stands for undefined)
getServerId(cfg) == cfg

buildServerApiUrl(panelUrl, serverId) ==
  <<panelUrl, "api", "client", "servers", serverId, "files">>

BearerHeader(apiKey) == <<"Bearer", apiKey>>

\* createRuntimeState() followed by hydrateRuntimeState(state)
hydrateServerApiUrl(sid) ==
  IF getPanelUrl # "" /\ getServerId(sid) # ""
  THEN buildServerApiUrl(getPanelUrl, getServerId(sid)) ELSE Empty

hydrateAuthHeader(key) ==
  IF key # "" THEN BearerHeader(key) ELSE Empty

(***************************************************************************)
(* StatusBarController                                                     *)
(***************************************************************************)
NoTimers == [d \in {SettleDelay, PowerDelay} |-> 0]

\* setTimeout(() => this.requestRefresh(), delay)
SetTimeout(timers, delay) == [timers EXCEPT ![delay] = @ + 1]

\* current_state as displayed: "starting" is shown as "running", then title-cased
DisplayState(state) == IF state = "starting" THEN "running" ELSE state
\* state.charAt(0).toUpperCase() + state.slice(1), on the states of the model
TitleCase(state) ==
  CASE state = "starting" -> "Starting"
    [] state = "running" -> "Running"
    [] state = "stopping" -> "Stopping"
    [] state = "offline" -> "Offline"
    [] OTHER -> state
TitleState(state) == TitleCase(DisplayState(state))

\* refresh(): the indicator a body that returns without a fetch renders,
\* or "fetch" when the body suspends at its fetch
RefreshSyncOutcome(url, auth, sid) ==
  IF url = Empty \/ auth = Empty THEN "No Server"
  ELSE IF getPanelUrl = "" \/ getServerId(sid) = "" THEN "Config Error"
  ELSE "fetch"

\* what the resources request of refresh() may be answered with: no answer at
\* all, a non-2xx status, a 2xx body that is no JSON or carries no
\* current_state, or a current_state
ResourceFailures == {"transport failure", "not ok", "unusable body"}
ResourceAnswers == RemoteStates \cup ResourceFailures

\* refresh(): the try block throws (fetch rejects, the body throws on
\* !response.ok, response.json() rejects or data.attributes is undefined)
Thrown(answer) == answer \in ResourceFailures

\* a catch clause that handles only the error the body throws itself
CatchesOwn(answer) == answer = "not ok"
\* refresh(): catch (error) has no filter
Catches(answer) == TRUE

\* refresh() after its fetch: the indicator it leaves, given the one it found,
\* and whether the body raised
RefreshBody(answer, text) ==
  IF ~Thrown(answer) THEN [text |-> TitleState(answer), raised |-> FALSE]
  ELSE IF Catches(answer) THEN [text |-> "Offline", raised |-> FALSE]
  ELSE [text |-> text, raised |-> TRUE]

\* the task ended no sendPowerSignal that had posted its request
NoSignal == [answer |-> "none", message |-> "none"]

\* no refresh() body has ended yet
NoBody == [answer |-> "none", raised |-> FALSE]
\* a refresh() body that returned before its fetch
NoFetch == [answer |-> "no fetch", raised |-> FALSE]

\* the finally handler of requestRefresh, applied to the flags (q, timers)
FinallyInFlight == FALSE
\* a finally handler that leaves the queued flag set
QueuedKept(q) == q
FinallyQueued(q) == FALSE
\* a finally handler that schedules no trailing refresh
NoTrailing(q, timers) == timers
FinallyTimers(q, timers) == IF q THEN SetTimeout(timers, SettleDelay) ELSE timers

\* requestRefresh() without its guard
NeverRunning == FALSE

\* requestRefresh() line 217: a refresh is already running
AlreadyRunning == refreshInFlight

\* requestRefresh(), reading the connection state (url, auth, sid) its task has
\* set; timers0 is the timer table once the task's own timer, if any, is gone
RequestRefresh(url, auth, sid, timers0) ==
  /\ callFlip' = ~callFlip
  /\ IF AlreadyRunning
     THEN /\ refreshQueued' = TRUE
          /\ callsDuring' = callsDuring + 1
          /\ unserved' = TRUE
          /\ statusTimers' = timers0
          /\ UNCHANGED <<refreshInFlight, refreshBodies, statusText, refreshLast, openButtonShown>>
     ELSE /\ unserved' = FALSE
          /\ callsDuring' = 0
          /\ IF RefreshSyncOutcome(url, auth, sid) = "fetch"
             THEN /\ refreshInFlight' = TRUE
                  /\ refreshBodies' = refreshBodies + 1
                  /\ openButtonShown' = TRUE
                  /\ statusTimers' = timers0
                  /\ UNCHANGED <<refreshQueued, statusText, refreshLast>>
             ELSE \* the body returns in the same task; finally runs as its microtask
                  /\ statusText' = RefreshSyncOutcome(url, auth, sid)
                  /\ refreshLast' = NoFetch
                  /\ openButtonShown' = FALSE
                  /\ refreshInFlight' = FinallyInFlight
                  /\ refreshQueued' = FinallyQueued(refreshQueued)
                  /\ statusTimers' = FinallyTimers(refreshQueued, timers0)
                  /\ UNCHANGED refreshBodies

\* initialize(): first refresh request and the 5-second interval
Initialize ==
  /\ ~refreshInterval
  /\ events = 0
  /\ refreshInterval' = TRUE
  /\ events' = events + 1
  /\ RequestRefresh(serverApiUrl, authHeader, cfgServerId, statusTimers)
  /\ powerLast' = NoSignal
  /\ UNCHANGED <<connVars, panelFlows, powerInFlight, notStatus>>

\* the interval callback
Tick ==
  /\ refreshInterval
  /\ events < MaxEvents
  /\ events' = events + 1
  /\ RequestRefresh(serverApiUrl, authHeader, cfgServerId, statusTimers)
  /\ powerLast' = NoSignal
  /\ UNCHANGED <<connVars, panelFlows, refreshInterval, powerInFlight, notStatus>>

\* the disposable registered by initialize(): clearInterval
Dispose ==
  /\ refreshInterval
  /\ refreshInterval' = FALSE
  /\ powerLast' = NoSignal
  /\ UNCHANGED <<connVars, panelFlows, refreshInFlight, refreshQueued, refreshBodies, statusTimers,
                 powerInFlight, statusText, refreshLast, openButtonShown, events, callFlip,
                 callsDuring, unserved, notStatus>>

\* a settle or post-power-signal timer fires: its callback calls requestRefresh()
TimerFire ==
  \E d \in {SettleDelay, PowerDelay} :
    /\ statusTimers[d] > 0
    /\ RequestRefresh(serverApiUrl, authHeader, cfgServerId,
                      [statusTimers EXCEPT ![d] = @ - 1])
    /\ powerLast' = NoSignal
    /\ UNCHANGED <<connVars, panelFlows, refreshInterval, powerInFlight, events, notStatus>>

\* the fetch of a running refresh() settles: the body renders the indicator
\* (the displayed state, or Offline on any failure) and the finally handler runs
RefreshFinish ==
  /\ refreshBodies > 0
  /\ \E answer \in ResourceAnswers :
       /\ statusText' = RefreshBody(answer, statusText).text
       /\ refreshLast' = [answer |-> answer, raised |-> RefreshBody(answer, statusText).raised]
  /\ refreshBodies' = refreshBodies - 1
  /\ refreshInFlight' = FinallyInFlight
  /\ refreshQueued' = FinallyQueued(refreshQueued)
  /\ statusTimers' = FinallyTimers(refreshQueued, statusTimers)
  /\ powerLast' = NoSignal
  /\ UNCHANGED <<connVars, panelFlows, refreshInterval, powerInFlight, openButtonShown, events,
                 callFlip, callsDuring, unserved, notStatus>>

\* onDidChangeConfiguration: the settings already hold their new values
ConfigChange ==
  /\ refreshInterval
  /\ events < MaxEvents
  /\ \E sid \in ServerIds \cup {""}, key \in ApiKeys \cup {""},
        affectsServer \in BOOLEAN, affectsKey \in BOOLEAN :
       /\ sid # cfgServerId => affectsServer
       /\ key # cfgApiKey => affectsKey
       /\ cfgServerId' = sid
       /\ cfgApiKey' = key
       /\ serverApiUrl' = IF affectsServer
                          THEN (IF getPanelUrl = "" \/ getServerId(sid) = "" THEN Empty
                                ELSE buildServerApiUrl(getPanelUrl, getServerId(sid)))
                          ELSE serverApiUrl
       /\ authHeader' = IF affectsKey
                        THEN (IF key # "" THEN BearerHeader(key) ELSE Empty)
                        ELSE authHeader
       /\ events' = events + 1
       /\ RequestRefresh(serverApiUrl', authHeader', sid, statusTimers)
  /\ powerLast' = NoSignal
  /\ UNCHANGED <<panelFlows, refreshInterval, powerInFlight, notStatus>>

\* command pterodactyl-vsc.reset: clearRuntimeState, then requestRefresh
ResetCommand ==
  /\ refreshInterval
  /\ events < MaxEvents
  /\ serverApiUrl' = Empty
  /\ authHeader' = Empty
  /\ events' = events + 1
  /\ RequestRefresh(Empty, Empty, cfgServerId, statusTimers)
  /\ powerLast' = NoSignal
  /\ UNCHANGED <<cfgServerId, cfgApiKey, panelFlows, refreshInterval, powerInFlight, notStatus>>

\* command pterodactyl-vsc.clearApiKey: setApiKey(undefined), authHeader = ""
ClearApiKeyCommand ==
  /\ refreshInterval
  /\ events < MaxEvents
  /\ cfgApiKey' = ""
  /\ authHeader' = Empty
  /\ events' = events + 1
  /\ RequestRefresh(serverApiUrl, Empty, cfgServerId, statusTimers)
  /\ powerLast' = NoSignal
  /\ UNCHANGED <<cfgServerId, serverApiUrl, panelFlows, refreshInterval, powerInFlight,
                 notStatus>>

\* every response counts as a success
AnyResponseAccepted(answer) == answer # "transport"
\* sendPowerSignal: if (response.status === 204)
PowerAccepted(answer) == answer = "204"

\* sendPowerSignal(signal) up to its fetch; without a connection or a server id
\* it only shows an error message
SendPowerSignal ==
  /\ refreshInterval
  /\ events < MaxEvents
  /\ \E signal \in PowerSignals :
       /\ events' = events + 1
       /\ powerInFlight' =
            IF serverApiUrl = Empty \/ authHeader = Empty THEN powerInFlight
            ELSE IF getPanelUrl = "" \/ getServerId(cfgServerId) = "" THEN powerInFlight
            ELSE powerInFlight + 1
       /\ powerLast' = NoSignal
  /\ UNCHANGED <<connVars, panelFlows, refreshInFlight, refreshQueued, refreshInterval, refreshBodies,
                 statusTimers, statusText, refreshLast, openButtonShown, callFlip, callsDuring,
                 unserved, notStatus>>

\* the power endpoint answers: only 204 schedules a refresh, 750ms later, and
\* shows the confirmation; any other outcome shows a failure message
PowerAnswer ==
  /\ powerInFlight > 0
  /\ \E answer \in PowerAnswers :
       /\ statusTimers' = IF PowerAccepted(answer) THEN SetTimeout(statusTimers, PowerDelay)
                          ELSE statusTimers
       /\ powerLast' = [answer |-> answer,
                        message |-> IF PowerAccepted(answer) THEN "information" ELSE "error"]
  /\ powerInFlight' = powerInFlight - 1
  /\ UNCHANGED <<connVars, panelFlows, refreshInFlight, refreshQueued, refreshInterval, refreshBodies,
                 statusText, refreshLast, openButtonShown, events, callFlip, callsDuring, unserved,
                 notStatus>>

(***************************************************************************)
(* PterodactylTreeDataProvider                                             *)
(***************************************************************************)
EmptyMap == <<>>
MapSet(m, k, v) == [x \in DOMAIN m \cup {k} |-> IF x = k THEN v ELSE m[x]]

NoReveal == [tracked |-> FALSE, orphans |-> 0, stale |-> 0]
\* treeOp: op is the operation; for getChildren, ret is the list returned, started
\* tells that readDirectory was called, first that it is the directory's first
\* call since a refresh(); for a timer or a listing answer, stale tells that it
\* was scheduled or requested before the last refresh(); notified tells that a
\* change notification was fired; for refresh, again tells that the operation
\* before it was a refresh() too
NoOp == [op |-> "none", dir |-> "", ret |-> <<>>, started |-> FALSE,
         first |-> FALSE, stale |-> FALSE, notified |-> FALSE, again |-> FALSE]

\* vscode.FileType of an entry has the File bit
IsFileType(type) == type \in {"File", "SymlinkFile"}

\* toTreeItem(directoryUri, name, type)
toTreeItem(entry) == [label |-> entry[1], isFile |-> IsFileType(entry[2])]

\* String.prototype.localeCompare on the labels of the model: the collation
\* rank of each label (letters before case, as ICU orders them)
LocaleRank(label) ==
  CASE label = "a" -> 1
    [] label = "B" -> 2
    [] label = "b.txt" -> 3
    [] label = "c.txt" -> 4
    [] OTHER -> 5
\* a comparison of the UTF-16 code units (upper case before lower case)
codeUnitCompare(left, right) ==
  LET CodeUnitRank(label) == CASE label = "B" -> 1
                               [] label = "a" -> 2
                               [] label = "b.txt" -> 3
                               [] label = "c.txt" -> 4
                               [] OTHER -> 5
  IN CodeUnitRank(left) - CodeUnitRank(right)
localeCompare(left, right) == LocaleRank(left) - LocaleRank(right)

\* the comparator of startAnimatedLoad's sort
CompareItems(left, right) ==
  IF left.isFile # right.isFile
  THEN (IF left.isFile THEN 1 ELSE -1)
  ELSE localeCompare(left.label, right.label)

\* Array.prototype.sort with CompareItems (stable): insertion of x into sorted s
RECURSIVE InsertItem(_, _)
InsertItem(x, s) ==
  IF s = <<>> THEN <<x>>
  ELSE IF CompareItems(x, Head(s)) < 0 THEN <<x>> \o s
  ELSE <<Head(s)>> \o InsertItem(x, Tail(s))

RECURSIVE SortItems(_)
SortItems(s) ==
  IF s = <<>> THEN <<>>
  ELSE InsertItem(s[Len(s)], SortItems(SubSeq(s, 1, Len(s) - 1)))

TreeItemsOf(listing) == SortItems([i \in 1..Len(listing) |-> toTreeItem(listing[i])])

\* allItems.slice(0, visibleItems.length + 1)
NextVisible(allItems, visibleItems) ==
  SubSeq(allItems, 1, IF Len(visibleItems) + 1 <= Len(allItems)
                      THEN Len(visibleItems) + 1 ELSE Len(allItems))

\* setTimeout + revealTimersByDirectory.set: the new timer takes the map's slot,
\* a pending timer that held it stays pending without a handle in the map
ScheduleReveal(p) ==
  [tracked |-> TRUE, orphans |-> p.orphans + (IF p.tracked THEN 1 ELSE 0), stale |-> p.stale]

\* revealTimersByDirectory.delete: a pending timer that held the slot loses it
ForgetReveal(p) ==
  [tracked |-> FALSE, orphans |-> p.orphans + (IF p.tracked THEN 1 ELSE 0), stale |-> p.stale]

\* revealNextItems(directoryKey, element) on the maps (allM, visM), the timer
\* keys and the pending timers p of the directory: what it leaves behind
revealNextItems(allM, visM, keys, p, d) ==
  IF d \notin DOMAIN allM \/ d \notin DOMAIN visM
  THEN [vis |-> visM, keys |-> keys, pending |-> p, notified |-> FALSE]
  ELSE IF Len(visM[d]) >= Len(allM[d])
  THEN [vis |-> visM, keys |-> keys \ {d}, pending |-> ForgetReveal(p), notified |-> FALSE]
  ELSE [vis |-> MapSet(visM, d, NextVisible(allM[d], visM[d])),
        keys |-> keys \cup {d}, pending |-> ScheduleReveal(p), notified |-> TRUE]

\* ensureConnected() of the bridge passes
BridgeConnected == serverApiUrl # Empty

\* startAnimatedLoad lines 77-81: a load for the directory is in flight
LoadInFlight(d) == d \in loadInFlightByDirectory

\* getChildren(element) for the directory d of element
GetChildren(d) ==
  /\ getChildrenCalls < MaxGetChildren
  /\ getChildrenCalls' = getChildrenCalls + 1
  /\ refreshTargetByDirectory' = refreshTargetByDirectory \cup {d}
  /\ awaitingFirst' = awaitingFirst \ {d}
  /\ IF d \in DOMAIN visibleItemsByDirectory
     THEN \* the visible snapshot is returned
          /\ treeOp' = [NoOp EXCEPT !.op = "getChildren", !.dir = d,
                          !.ret = visibleItemsByDirectory[d],
                          !.first = d \in awaitingFirst]
          /\ UNCHANGED <<allItemsByDirectory, visibleItemsByDirectory,
                         loadInFlightByDirectory, revealTimersByDirectory, listings,
                         revealPending, notifications, failedDirs>>
     ELSE IF LoadInFlight(d)
     THEN \* startAnimatedLoad awaits the load in flight
          /\ treeOp' = [NoOp EXCEPT !.op = "getChildren", !.dir = d,
                          !.first = d \in awaitingFirst]
          /\ UNCHANGED <<allItemsByDirectory, visibleItemsByDirectory,
                         loadInFlightByDirectory, revealTimersByDirectory, listings,
                         revealPending, notifications, failedDirs>>
     ELSE IF ~BridgeConnected
     THEN \* readDirectory rejects before any request: the catch block and the
          \* finally handler run as microtasks of this task
          /\ visibleItemsByDirectory' = MapSet(visibleItemsByDirectory, d, <<>>)
          /\ notifications' = [notifications EXCEPT ![d] = 1]
          /\ failedDirs' = failedDirs \cup {d}
          /\ treeOp' = [NoOp EXCEPT !.op = "getChildren", !.dir = d, !.started = TRUE,
                          !.first = d \in awaitingFirst, !.notified = TRUE]
          /\ UNCHANGED <<allItemsByDirectory, loadInFlightByDirectory,
                         revealTimersByDirectory, listings, revealPending>>
     ELSE \* a listing request is issued and the load is registered
          /\ listings' = [listings EXCEPT ![d].fresh = @ + 1]
          /\ loadInFlightByDirectory' = loadInFlightByDirectory \cup {d}
          /\ treeOp' = [NoOp EXCEPT !.op = "getChildren", !.dir = d, !.started = TRUE,
                          !.first = d \in awaitingFirst]
          /\ UNCHANGED <<allItemsByDirectory, visibleItemsByDirectory,
                         revealTimersByDirectory, revealPending, notifications,
                         failedDirs>>
  /\ UNCHANGED refreshCalls

\* refresh() on the pending timers of a directory: clearTimeout reaches the
\* timer whose handle the map holds; the others stay pending
RefreshPending(p) ==
  [tracked |-> FALSE, orphans |-> 0, stale |-> p.stale + p.orphans]
\* refresh() aborts no listing request: those outstanding are now stale
RefreshListings(l) == [fresh |-> 0, stale |-> l.stale + l.fresh]

\* a refresh() that leaves the in-flight map alone
KeptLoads(inFlight) == inFlight
\* loadInFlightByDirectory.clear()
ClearedLoads(inFlight) == {}

\* the state of the provider, and refresh() as a function of it
TreeSnapshot ==
  [allItems |-> allItemsByDirectory, visibleItems |-> visibleItemsByDirectory,
   loadInFlight |-> loadInFlightByDirectory, refreshTarget |-> refreshTargetByDirectory,
   revealTimers |-> revealTimersByDirectory, pending |-> revealPending,
   listings |-> listings]

refresh(t) ==
  [allItems |-> EmptyMap, visibleItems |-> EmptyMap,
   loadInFlight |-> ClearedLoads(t.loadInFlight), refreshTarget |-> {},
   revealTimers |-> {},
   pending |-> [d \in Dirs |-> RefreshPending(t.pending[d])],
   listings |-> [d \in Dirs |-> RefreshListings(t.listings[d])]]

TreeRefresh ==
  LET t == refresh(TreeSnapshot)
  IN /\ refreshCalls' = refreshCalls + 1
     /\ revealPending' = t.pending
     /\ revealTimersByDirectory' = t.revealTimers
     /\ allItemsByDirectory' = t.allItems
     /\ visibleItemsByDirectory' = t.visibleItems
     /\ loadInFlightByDirectory' = t.loadInFlight
     /\ refreshTargetByDirectory' = t.refreshTarget
     /\ listings' = t.listings
     /\ awaitingFirst' = Dirs
     /\ notifications' = [d \in Dirs |-> 0]
     /\ failedDirs' = {}
     /\ treeOp' = [NoOp EXCEPT !.op = "refresh", !.notified = TRUE,
                     !.again = (treeOp.op = "refresh")]
     /\ UNCHANGED getChildrenCalls

\* refresh() as the last statement of handleDrop
DropRefresh ==
  /\ refreshCalls < MaxRefreshes
  /\ TreeRefresh
  /\ UNCHANGED <<connVars, panelFlows, notTree>>

\* a load that keeps the visible list it finds
KeepVisible(visM, d) == IF d \in DOMAIN visM THEN visM ELSE MapSet(visM, d, <<>>)
\* visibleItemsByDirectory.set(directoryKey, [])
ResetVisible(visM, d) == MapSet(visM, d, <<>>)

\* the panel answers a listing request of directory d with a listing: the items
\* are sorted and stored, the reveal starts, the finally handler drops the load
ListingAnswered(d, wasStale, listing) ==
  LET allM == MapSet(allItemsByDirectory, d, TreeItemsOf(listing))
      visM == ResetVisible(visibleItemsByDirectory, d)
      r == revealNextItems(allM, visM, revealTimersByDirectory, revealPending[d], d)
  IN /\ allItemsByDirectory' = allM
     /\ visibleItemsByDirectory' = r.vis
     /\ revealTimersByDirectory' = r.keys
     /\ revealPending' = [revealPending EXCEPT ![d] = r.pending]
     /\ loadInFlightByDirectory' = loadInFlightByDirectory \ {d}
     /\ notifications' = [notifications EXCEPT ![d] = IF r.notified THEN 1 ELSE 0]
     /\ UNCHANGED failedDirs
     /\ treeOp' = [NoOp EXCEPT !.op = "listed", !.dir = d, !.stale = wasStale,
                     !.notified = r.notified]

\* a catch block that records nothing for the directory
FailedForgotten(visM, d) == visM
\* the catch block of the load: visibleItemsByDirectory.set(directoryKey, [])
FailedVisible(visM, d) == MapSet(visM, d, <<>>)

\* the listing request fails (transport, or a status forConnection rejects)
ListingFailed(d, wasStale) ==
  /\ visibleItemsByDirectory' = FailedVisible(visibleItemsByDirectory, d)
  /\ loadInFlightByDirectory' = loadInFlightByDirectory \ {d}
  /\ notifications' = [notifications EXCEPT ![d] = @ + 1]
  /\ failedDirs' = failedDirs \cup {d}
  /\ treeOp' = [NoOp EXCEPT !.op = "failed", !.dir = d, !.stale = wasStale,
                  !.notified = TRUE]
  /\ UNCHANGED <<allItemsByDirectory, revealTimersByDirectory, revealPending>>

LoadCompletes ==
  \E d \in Dirs, wasStale \in BOOLEAN :
    /\ IF wasStale THEN listings[d].stale > 0 ELSE listings[d].fresh > 0
    /\ listings' = IF wasStale THEN [listings EXCEPT ![d].stale = @ - 1]
                   ELSE [listings EXCEPT ![d].fresh = @ - 1]
    /\ \/ \E listing \in RemoteListings : ListingAnswered(d, wasStale, listing)
       \/ ListingFailed(d, wasStale)
    /\ UNCHANGED <<refreshTargetByDirectory, awaitingFirst, getChildrenCalls,
                   refreshCalls, connVars, panelFlows, notTree>>

\* a reveal timer of directory d fires: revealNextItems runs again
RevealTimerFires ==
  \E d \in Dirs, kind \in {"tracked", "orphan", "stale"} :
    /\ CASE kind = "tracked" -> revealPending[d].tracked
         [] kind = "orphan" -> revealPending[d].orphans > 0
         [] kind = "stale" -> revealPending[d].stale > 0
    /\ LET p == CASE kind = "tracked" -> [revealPending[d] EXCEPT !.tracked = FALSE]
                  [] kind = "orphan" -> [revealPending[d] EXCEPT !.orphans = @ - 1]
                  [] kind = "stale" -> [revealPending[d] EXCEPT !.stale = @ - 1]
           r == revealNextItems(allItemsByDirectory, visibleItemsByDirectory,
                                revealTimersByDirectory, p, d)
       IN /\ visibleItemsByDirectory' = r.vis
          /\ revealTimersByDirectory' = r.keys
          /\ revealPending' = [revealPending EXCEPT ![d] = r.pending]
          /\ notifications' = [notifications EXCEPT
                                 ![d] = IF r.notified THEN @ + 1 ELSE @]
          /\ treeOp' = [NoOp EXCEPT !.op = "timer", !.dir = d,
                          !.stale = (kind = "stale"), !.notified = r.notified]
    /\ UNCHANGED <<allItemsByDirectory, loadInFlightByDirectory,
                   refreshTargetByDirectory, listings, awaitingFirst, failedDirs,
                   getChildrenCalls, refreshCalls, connVars, panelFlows, notTree>>

TreeGetChildren ==
  \E d \in Dirs : GetChildren(d) /\ UNCHANGED <<connVars, panelFlows, notTree>>

\* command pterodactyl-vsc.refresh: treeDataProvider.refresh(), requestRefresh()
RefreshCommand ==
  /\ refreshInterval
  /\ events < MaxEvents
  /\ refreshCalls < MaxRefreshes
  /\ events' = events + 1
  /\ TreeRefresh
  /\ RequestRefresh(serverApiUrl, authHeader, cfgServerId, statusTimers)
  /\ powerLast' = NoSignal
  /\ UNCHANGED <<connVars, panelFlows, panelObs, refreshInterval, powerInFlight, readVars, statVars,
                 opVars, dropVars>>

(***************************************************************************)
(* PterodactylTreeDragAndDropController.handleDrop                         *)
(***************************************************************************)
\* a tree item: its uri as path segments, its label and isFile
TreeItem(uri, isFile) == [uri |-> uri, label |-> uri[Len(uri)], isFile |-> isFile]
\* vscode.Uri.parse("pterodactyl:/")
RootUri == <<>>
\* vscode.Uri.joinPath(uri, name)
joinPath(uri, name) == Append(uri, name)

\* the items of the tree that are dragged and dropped on
DragItems ==
  { TreeItem(<<"new.txt">>, TRUE), TreeItem(<<"dir", "b.txt">>, TRUE),
    TreeItem(<<"dir">>, FALSE) }
\* handleDrop's target: a tree item, or undefined (a drop on the empty area)
DropTargets ==
  { [defined |-> FALSE, item |-> TreeItem(<<"dir">>, FALSE)] }
  \cup { [defined |-> TRUE, item |-> item] : item \in DragItems }
\* the batches: one to MaxBatch distinct items, in any order
Batches ==
  { batch \in UNION { [1..n -> DragItems] : n \in 1..MaxBatch } :
      \A i, j \in DOMAIN batch : i # j => batch[i] # batch[j] }

\* a drop lands in the root whatever it was dropped on
AlwaysRoot(target) == RootUri
\* target && target.isFile === false ? target.uri : vscode.Uri.parse("pterodactyl:/")
TargetUri(target) ==
  IF target.defined /\ ~target.item.isFile THEN target.item.uri ELSE RootUri

\* a loop that takes every item for a file
SkipNothing(items) == items
\* if (item.isFile === false) continue
RECURSIVE SkipFolders(_)
SkipFolders(items) ==
  IF items = <<>> \/ items[1].isFile THEN items ELSE SkipFolders(Tail(items))

\* a bridge call of the handler, with the create and overwrite options it
\* passes, and how it ended ("pending" while awaited)
DropCall(op, uri, create, overwrite) ==
  [op |-> op, uri |-> uri, create |-> create, overwrite |-> overwrite, ended |-> "pending"]

\* the last call of the batch has ended
Settled(calls, ended) == [calls EXCEPT ![Len(calls)].ended = ended]

\* the loop takes up the rest of the batch: the next file is read, or, with no
\* file left, the tree is refreshed and the handler returns
DropGoesOn(rest, calls, refreshes) ==
  IF SkipFolders(rest) = <<>>
  THEN /\ dropPc' = "done"
       /\ dropItems' = <<>>
       /\ dropCalls' = calls
       /\ dropRefreshes' = refreshes + 1
       /\ TreeRefresh
  ELSE /\ dropPc' = "readFile"
       /\ dropItems' = SkipFolders(rest)
       /\ dropCalls' = Append(calls, DropCall("readFile", SkipFolders(rest)[1].uri, FALSE, FALSE))
       /\ dropRefreshes' = refreshes
       /\ UNCHANGED treeVars

\* handleDrop(target, dataTransfer) up to its first await; without items of
\* the tree in the transfer it returns at once
HandleDrop ==
  /\ dropPc \in {"idle", "done"}
  /\ dropCount < MaxDrops
  /\ dropCount' = dropCount + 1
  /\ dropReported' = <<>>
  /\ \E target \in DropTargets :
       /\ dropTarget' = TargetUri(target)
       /\ \/ /\ dropBatch' = <<>>
             /\ dropPc' = "done"
             /\ dropItems' = <<>>
             /\ dropCalls' = <<>>
             /\ dropRefreshes' = 0
             /\ UNCHANGED treeVars
          \/ \E batch \in Batches :
               /\ dropBatch' = batch
               /\ DropGoesOn(batch, <<>>, 0)
  /\ UNCHANGED <<connVars, panelFlows, panelObs, statusVars, readVars, statVars, opVars,
                 remoteFiles>>

\* what the panel holds once the call has ended: a written file is there, a
\* deleted one is gone
RemoteAfter(files, call, ended) ==
  IF ended = "threw" THEN files
  ELSE IF call.op = "writeFile" THEN files \cup {call.uri}
  ELSE IF call.op = "delete" THEN files \ {call.uri}
  ELSE files

\* the bridge call the handler awaits returns or throws; the panel has no
\* content to return for a file it does not hold
DropCallSettles ==
  /\ dropPc \in {"readFile", "writeFile", "delete"}
  /\ LET item == dropItems[1]
         call == dropCalls[Len(dropCalls)]
     IN \E ended \in {"returned", "threw"} :
          /\ (dropPc = "readFile" /\ ended = "returned") => item.uri \in remoteFiles
          /\ remoteFiles' = RemoteAfter(remoteFiles, call, ended)
          /\ IF ended = "threw"
             THEN /\ dropReported' = Append(dropReported, item.label)
                  /\ DropGoesOn(Tail(dropItems), Settled(dropCalls, ended), dropRefreshes)
             ELSE IF dropPc = "readFile"
             THEN /\ dropPc' = "writeFile"
                  /\ dropCalls' = Append(Settled(dropCalls, ended),
                                         DropCall("writeFile", joinPath(dropTarget, item.label),
                                                  TRUE, TRUE))
                  /\ UNCHANGED <<dropItems, dropReported, dropRefreshes, treeVars>>
             ELSE IF dropPc = "writeFile"
             THEN /\ dropPc' = "delete"
                  /\ dropCalls' = Append(Settled(dropCalls, ended),
                                         DropCall("delete", item.uri, FALSE, FALSE))
                  /\ UNCHANGED <<dropItems, dropReported, dropRefreshes, treeVars>>
             ELSE /\ DropGoesOn(Tail(dropItems), Settled(dropCalls, ended), dropRefreshes)
                  /\ UNCHANGED dropReported
  /\ UNCHANGED <<dropTarget, dropBatch, dropCount, connVars, panelFlows, panelObs, statusVars,
                 readVars, statVars, opVars>>

(***************************************************************************)
(* PanelService.addPanel, and the callbacks extension.ts wires to it       *)
(***************************************************************************)
\* what the input box may resolve to (validateInput lets no malformed key
\* through): "" stands for a dismissed box
TypedKeys == {"", " key2 "}
\* value.trim(), on the typed values of the model
Trim(value) == IF value = " key2 " THEN "key2" ELSE value
\* /^[A-Za-z0-9_]{32,128}$/.test(value): key1 and key2 stand for well-formed keys
isValidApiKey(value) == value \in {"key1", "key2"}

\* the identifiers of the servers the panel lists for an accepted key
PanelServers == {"a1b2c3", "d4e5f6"}

\* `${parsedPanelUrl.scheme}://${parsedPanelUrl.authority}`: the panel URL has
\* no path, query or fragment to drop
PanelRootUrl(panelUrl) == panelUrl

\* response.ok
ResponseOk(status) == status >= 200 /\ status <= 299

\* how a fetch of the connect flow may settle: a status, or (0) by rejecting
PanelAnswers == HttpStatuses \cup {0}

Flow(pc, apiKey, serverId, changed) ==
  [pc |-> pc, apiKey |-> apiKey, serverId |-> serverId, changed |-> changed]
NoFlow == [outcome |-> "none", changed |-> FALSE, notified |-> FALSE]

Started(flows, flow) == flows (+) SetToBag({flow})
Ended(flows, flow) == flows (-) SetToBag({flow})
Moved(flows, flow, next) == (flows (-) SetToBag({flow})) (+) SetToBag({next})

\* the state variables requestRefresh() may assign
refreshVars == <<refreshInFlight, refreshQueued, refreshBodies, statusTimers, statusText, refreshLast,
                 openButtonShown, callFlip, callsDuring, unserved>>

\* addPanel() lines 51-78 up to its first await on the user or the network:
\* a key found in the settings is used as it is, else the input box opens
FirstAwait(apiKey) ==
  IF apiKey # "" THEN Flow("fetch", apiKey, "", FALSE) ELSE Flow("input", "", "", FALSE)

\* onAuthenticationFailed of extension.ts: setApiKey(undefined), authHeader = "",
\* addPanel(); the settings update is not awaited, so addPanel() may still
\* read the key that is being removed
AuthenticationFailed ==
  /\ cfgApiKey' = ""
  /\ authHeader' = Empty
  /\ \E seen \in {cfgApiKey, ""} : panelFlows' = Started(panelFlows, FirstAwait(seen))
  /\ UNCHANGED <<cfgServerId, serverApiUrl>>

\* a bridge call has observed a 401 and the user has chosen "Authenticate"
AuthFailureObserved ==
  /\ refreshInterval
  /\ events <= MaxPanelEvents
  /\ events' = events + 1
  /\ AuthenticationFailed
  /\ UNCHANGED <<panelObs, refreshVars, refreshInterval, powerInFlight, powerLast, notPanel>>

\* command pterodactyl-vsc.init: addPanel() up to its first await
PanelStart ==
  /\ refreshInterval
  /\ panelCalls < MaxConnects
  /\ panelCalls' = panelCalls + 1
  /\ panelFlows' = Started(panelFlows, FirstAwait(cfgApiKey))
  /\ UNCHANGED <<connVars, panelLast, onConnectedCalls, statusVars, notPanel>>

\* addPanel() returns before connectRuntimeState; the caller's
\* .then(() => requestRefresh()) runs as its microtask
FlowEnds(flow, outcome) ==
  /\ panelFlows' = Ended(panelFlows, flow)
  /\ panelLast' = [outcome |-> outcome, changed |-> flow.changed, notified |-> FALSE]
  /\ RequestRefresh(serverApiUrl, authHeader, cfgServerId, statusTimers)
  /\ UNCHANGED <<connVars, onConnectedCalls, panelCalls, refreshInterval, powerInFlight, powerLast,
                 events, notPanel>>

\* addPanel() goes on to its next await without touching anything else
FlowMoves(flow, next) ==
  /\ panelFlows' = Moved(panelFlows, flow, next)
  /\ UNCHANGED <<connVars, panelObs, statusVars, notPanel>>

\* the input box closes: lines 72-77
PanelInput ==
  \E flow \in BagToSet(panelFlows) : \E typed \in TypedKeys :
    /\ flow.pc = "input"
    /\ IF Trim(typed) = "" \/ ~isValidApiKey(Trim(typed))
       THEN FlowEnds(flow, "invalid key")
       ELSE FlowMoves(flow, [flow EXCEPT !.pc = "fetch", !.apiKey = Trim(typed)])

\* the fetch of /api/client/ settles: lines 84-115 up to await setApiKey(apiKey)
PanelFetchSettles ==
  \E flow \in BagToSet(panelFlows) : \E answer \in PanelAnswers :
    /\ flow.pc = "fetch"
    /\ IF answer = 0 THEN FlowEnds(flow, "transport failure")
       ELSE IF ~ResponseOk(answer) THEN FlowEnds(flow, "not ok")
       ELSE \/ \* response.json() rejects: the outer catch reports it
               FlowEnds(flow, "unexpected error")
            \/ FlowMoves(flow, [flow EXCEPT !.pc = "setApiKey"])

\* a refresh requested only if the handler of the settings change has run
RefreshIf(affected, url, auth, sid) ==
  IF affected THEN RequestRefresh(url, auth, sid, statusTimers) ELSE UNCHANGED refreshVars

\* await setApiKey(apiKey), line 115: the setting is written and, if that
\* changes its value, onDidChangeConfiguration runs (extension.ts lines 79-84)
\* before the quick pick opens
PanelSetApiKey ==
  \E flow \in BagToSet(panelFlows) :
    LET affectsKey == flow.apiKey # cfgApiKey IN
    /\ flow.pc = "setApiKey"
    /\ cfgApiKey' = flow.apiKey
    /\ authHeader' = IF affectsKey THEN BearerHeader(flow.apiKey) ELSE authHeader
    /\ RefreshIf(affectsKey, serverApiUrl, authHeader', cfgServerId)
    /\ panelFlows' = Moved(panelFlows, flow,
                           [flow EXCEPT !.pc = "pick",
                                        !.changed = @ \/ authHeader' # authHeader])
    /\ UNCHANGED <<cfgServerId, serverApiUrl, panelObs, refreshInterval, powerInFlight, powerLast,
                   events, notPanel>>

\* the quick pick closes: lines 128-141 up to the await of setServerId
PanelPick ==
  \E flow \in BagToSet(panelFlows) :
    /\ flow.pc = "pick"
    /\ \/ FlowEnds(flow, "cancelled")
       \/ \E id \in PanelServers :
            \* connectRuntimeState(state, panelRootUrl, identifier, apiKey)
            /\ serverApiUrl' = buildServerApiUrl(PanelRootUrl(getPanelUrl), id)
            /\ authHeader' = BearerHeader(flow.apiKey)
            /\ panelFlows' = Moved(panelFlows, flow,
                                   [flow EXCEPT !.pc = "setServerId", !.serverId = id,
                                                !.changed = TRUE])
            /\ UNCHANGED <<cfgServerId, cfgApiKey, panelObs, statusVars, notPanel>>

\* await Promise.all([setPanelUrl, setServerId]), line 138: the setting is
\* written and, if that changes it, onDidChangeConfiguration runs
\* (extension.ts lines 67-84); then lines 143-150 up to the await of setContext
PanelSetServerId ==
  \E flow \in BagToSet(panelFlows) :
    LET affectsServer == flow.serverId # cfgServerId IN
    /\ flow.pc = "setServerId"
    /\ cfgServerId' = flow.serverId
    /\ serverApiUrl' =
         IF affectsServer
         THEN (IF getPanelUrl = "" \/ getServerId(flow.serverId) = "" THEN Empty
               ELSE buildServerApiUrl(getPanelUrl, getServerId(flow.serverId)))
         ELSE serverApiUrl
    /\ RefreshIf(affectsServer, serverApiUrl', authHeader, flow.serverId)
    /\ panelFlows' = Moved(panelFlows, flow, [flow EXCEPT !.pc = "setContext"])
    /\ UNCHANGED <<cfgApiKey, authHeader, panelObs, refreshInterval, powerInFlight, powerLast,
                   events, notPanel>>

\* requestRefresh() called twice in one task: by onConnected and by the
\* .then() of the caller of addPanel(), after the finally handler of a
\* refresh() that returned without a fetch
RequestRefreshTwice(url, auth, sid, timers0) ==
  /\ callFlip' = callFlip
  /\ IF AlreadyRunning
     THEN /\ refreshQueued' = TRUE
          /\ callsDuring' = callsDuring + 2
          /\ unserved' = TRUE
          /\ statusTimers' = timers0
          /\ UNCHANGED <<refreshInFlight, refreshBodies, statusText, refreshLast, openButtonShown>>
     ELSE IF RefreshSyncOutcome(url, auth, sid) = "fetch"
     THEN /\ refreshInFlight' = TRUE
          /\ refreshBodies' = refreshBodies + 1
          /\ openButtonShown' = TRUE
          /\ refreshQueued' = TRUE
          /\ callsDuring' = 1
          /\ unserved' = TRUE
          /\ statusTimers' = timers0
          /\ UNCHANGED <<statusText, refreshLast>>
     ELSE /\ statusText' = RefreshSyncOutcome(url, auth, sid)
          /\ refreshLast' = NoFetch
          /\ openButtonShown' = FALSE
          /\ refreshInFlight' = FinallyInFlight
          /\ refreshQueued' = FinallyQueued(FinallyQueued(refreshQueued))
          /\ statusTimers' = FinallyTimers(FinallyQueued(refreshQueued),
                                           FinallyTimers(refreshQueued, timers0))
          /\ callsDuring' = 0
          /\ unserved' = FALSE
          /\ UNCHANGED refreshBodies

\* setContext has answered: onConnected() (refreshTree, requestRefresh), line
\* 151, and addPanel() returns to its caller's .then(() => requestRefresh())
PanelConnected ==
  \E flow \in BagToSet(panelFlows) :
    /\ flow.pc = "setContext"
    /\ panelFlows' = Ended(panelFlows, flow)
    /\ panelLast' = [outcome |-> "connected", changed |-> flow.changed, notified |-> TRUE]
    /\ onConnectedCalls' = onConnectedCalls + 1
    /\ TreeRefresh
    /\ RequestRefreshTwice(serverApiUrl, authHeader, cfgServerId, statusTimers)
    /\ UNCHANGED <<connVars, panelCalls, refreshInterval, powerInFlight, powerLast, events, readVars,
                   statVars, opVars, dropVars>>

(***************************************************************************)
(* PterodactylFileSystemProvider: forConnection and readFile               *)
(***************************************************************************)
NoError == [kind |-> "none", detail |-> "", attempt |-> 0]

\* forConnection(operation, response): "ok" when it returns, else the
\* FileSystemError it throws
forConnection(status) ==
  CASE status = 401 -> [kind |-> "NoPermissions", detail |-> "url"]
    [] status = 403 -> [kind |-> "NoPermissions", detail |-> "url"]
    [] status = 404 -> [kind |-> "FileNotFound", detail |-> "url"]
    [] status = 422 -> [kind |-> "Unavailable", detail |-> "remote detail"]
    [] status = 429 -> [kind |-> "Unavailable", detail |-> "ratelimited"]
    [] status = 500 -> [kind |-> "Unavailable", detail |-> "unable to handle"]
    [] OTHER -> IF ResponseOk(status) THEN [kind |-> "ok", detail |-> ""]
                ELSE [kind |-> "Unavailable", detail |-> "Unknown error"]

\* the error fetch() or response.arrayBuffer() rejects with
TransportError == [kind |-> "TypeError", detail |-> "fetch failed"]

\* a linear backoff
LinearDelay(attempt) == attempt * 100
\* 2 ** attempt * 100
RetryDelay(attempt) == 2 ^ attempt * 100

\* attempt < maxRetries: a backoff delay follows the failed attempt
DelayFollows(attempt) == attempt < maxRetries

\* readFile(uri) up to its first await: ensureConnected, then the first fetch
ReadFileCall ==
  /\ readPc \in {"idle", "returned", "threw"}
  /\ readCalls < MaxReads
  /\ readCalls' = readCalls + 1
  /\ readOutcomes' = <<>>
  /\ readDelays' = <<>>
  /\ authWarnings' = 0
  /\ authCallbacks' = 0
  /\ readLastError' = NoError
  /\ readAttempt' = 1
  /\ IF ~BridgeConnected
     THEN /\ readPc' = "threw"
          /\ readResult' = [kind |-> "Unavailable", detail |-> "No server API URL set",
                            attempt |-> 0]
          /\ readFetches' = 0
     ELSE /\ readPc' = "fetch"
          /\ readResult' = NoError
          /\ readFetches' = 1
  /\ UNCHANGED <<connVars, panelFlows, notRead>>

\* the catch block of the loop for the error of the current attempt
ReadAttemptFailed(error) ==
  /\ readLastError' = [kind |-> error.kind, detail |-> error.detail,
                       attempt |-> readAttempt]
  /\ readOutcomes' = Append(readOutcomes, error.kind)
  /\ IF DelayFollows(readAttempt)
     THEN /\ readPc' = "delay"
          /\ readDelays' = Append(readDelays, RetryDelay(readAttempt))
          /\ readResult' = readResult
          /\ readAttempt' = readAttempt
     ELSE \* attempt += 1 ends the loop: throw lastError
          /\ readPc' = "threw"
          /\ readDelays' = readDelays
          /\ readResult' = readLastError'
          /\ readAttempt' = readAttempt + 1
  /\ UNCHANGED <<readFetches, readCalls>>

\* the fetch of the current attempt settles: a transport failure, or a response
\* that forConnection passes (the body is returned) or rejects; on 401 the
\* prompt is shown first and the user may choose "Authenticate"
ReadAttemptSettles ==
  /\ readPc = "fetch"
  /\ \/ /\ ReadAttemptFailed(TransportError)
        /\ UNCHANGED <<connVars, panelFlows, authWarnings, authCallbacks>>
     \/ \E status \in HttpStatuses \ {401} :
          /\ IF forConnection(status).kind = "ok"
             THEN /\ \E payload \in Payloads : readResult' = payload
                  /\ readPc' = "returned"
                  /\ readOutcomes' = Append(readOutcomes, "ok")
                  /\ UNCHANGED <<readAttempt, readLastError, readFetches, readDelays,
                                 readCalls>>
             ELSE ReadAttemptFailed(forConnection(status))
          /\ UNCHANGED <<connVars, panelFlows, authWarnings, authCallbacks>>
     \/ \E authenticate \in BOOLEAN :
          /\ ReadAttemptFailed(forConnection(401))
          /\ authWarnings' = authWarnings + 1
          /\ IF authenticate
             THEN \* onAuthenticationFailed: setApiKey(undefined), authHeader = ""
                  /\ authCallbacks' = authCallbacks + 1
                  /\ AuthenticationFailed
             ELSE UNCHANGED <<connVars, panelFlows, authCallbacks>>
  /\ UNCHANGED notRead

\* the backoff timer fires: the loop goes on with the next attempt's fetch
ReadDelayElapses ==
  /\ readPc = "delay"
  /\ readAttempt' = readAttempt + 1
  /\ readFetches' = readFetches + 1
  /\ readPc' = "fetch"
  /\ UNCHANGED <<readLastError, readResult, readOutcomes, readDelays, readCalls,
                 authWarnings, authCallbacks, connVars, panelFlows, notRead>>

(***************************************************************************)
(* PterodactylFileSystemProvider: stat and its cache                       *)
(***************************************************************************)
MapDelete(m, k) == [x \in DOMAIN m \ {k} |-> m[x]]

\* const cacheKey = `stat:${uri.toString()}`
StatCacheKey(path) == <<"stat", path>>

\* getFileType(isFile, isSymlink): the bits of the vscode.FileType it returns
getFileType(isFile, isSymlink) ==
  IF isFile /\ isSymlink THEN {"File", "SymbolicLink"}
  ELSE IF isFile THEN {"File"}
  ELSE IF isSymlink THEN {"Directory", "SymbolicLink"}
  ELSE {"Directory"}

\* the FileStat stat builds from the attributes of the listing entry
ResponseStat(attributes) ==
  [ size |-> attributes.size,
    permissions |-> IF attributes.writable THEN "undefined" ELSE "Readonly",
    type |-> getFileType(attributes.is_file, attributes.is_symlink) ]

\* the FileStat stat returns for the root path
RootStat == [size |-> 0, permissions |-> "undefined", type |-> {"Directory"}]

\* no FileStat: the call threw
NoStat == [size |-> 0, permissions |-> "undefined", type |-> {}]

NoStatCall ==
  [ path |-> "", pc |-> "none", kind |-> "", detail |-> "", stat |-> NoStat,
    hit |-> FALSE, fetched |-> FALSE, status |-> 0, age |-> 0,
    warnings |-> 0, callbacks |-> 0 ]

\* a stat() call that ended without a network call
StatEndedAtOnce(path, pc, kind, detail, stat, hit, age) ==
  [ path |-> path, pc |-> pc, kind |-> kind, detail |-> detail, stat |-> stat,
    hit |-> hit, fetched |-> FALSE, status |-> 0, age |-> age,
    warnings |-> 0, callbacks |-> 0 ]

\* a stat() call that ended after its listing fetch settled
StatEndedAfterFetch(path, pc, kind, detail, stat, status, warnings, callbacks) ==
  [ path |-> path, pc |-> pc, kind |-> kind, detail |-> detail, stat |-> stat,
    hit |-> FALSE, fetched |-> TRUE, status |-> status, age |-> 0,
    warnings |-> warnings, callbacks |-> callbacks ]

\* the hit counter is left as it is
HitsKept(hits, key) == hits
\* responseCacheHits.set(cacheKey, (responseCacheHits.get(cacheKey) ?? 0) + 1)
HitsCounted(hits, key) ==
  MapSet(hits, key, (IF key \in DOMAIN hits THEN hits[key] ELSE 0) + 1)

\* the entry outlives its timer
CacheKept(cache, key) == cache
\* the timer callback: responseCache.delete(cacheKey)
CacheEvicted(cache, key) == MapDelete(cache, key)

\* ensureConnected() throws
NotConnectedError == [kind |-> "Unavailable", detail |-> "No server API URL set"]

\* stat(uri) up to its first await
StatCall(path) ==
  /\ statCalls < MaxStats
  /\ statCalls' = statCalls + 1
  /\ IF ~BridgeConnected
     THEN /\ lastStat' = StatEndedAtOnce(path, "threw", NotConnectedError.kind,
                                         NotConnectedError.detail, NoStat, FALSE, 0)
          /\ UNCHANGED <<responseCacheHits, statInFlight>>
     ELSE IF StatCacheKey(path) \in DOMAIN responseCache
     THEN /\ responseCacheHits' = HitsCounted(responseCacheHits, StatCacheKey(path))
          /\ lastStat' = StatEndedAtOnce(path, "returned", "ok", "",
                                         responseCache[StatCacheKey(path)], TRUE,
                                         storedAge[StatCacheKey(path)])
          /\ UNCHANGED statInFlight
     ELSE IF path = RootPath
     THEN /\ lastStat' = StatEndedAtOnce(path, "returned", "ok", "", RootStat, FALSE, 0)
          /\ UNCHANGED <<responseCacheHits, statInFlight>>
     ELSE /\ statInFlight' = [statInFlight EXCEPT ![path] = @ + 1]
          /\ UNCHANGED <<responseCacheHits, lastStat>>
  /\ UNCHANGED <<responseCache, evictTimers, storedAge, storedUnder, connVars, panelFlows, notStat>>

\* stat lines 326-334: the entry is stored and its eviction timer started
StatStore(path, stat) ==
  /\ responseCache' = MapSet(responseCache, StatCacheKey(path), stat)
  /\ responseCacheHits' = MapSet(responseCacheHits, StatCacheKey(path), 0)
  /\ storedAge' = MapSet(storedAge, StatCacheKey(path), 0)
  /\ storedUnder' = MapSet(storedUnder, StatCacheKey(path), serverApiUrl)
  /\ evictTimers' = [evictTimers EXCEPT ![path] = Append(@, 0)]

\* the listing fetch of a stat() call settles: a transport failure, a response
\* forConnection rejects, or a listing with or without the entry
StatSettles(path) ==
  /\ statInFlight[path] > 0
  /\ statInFlight' = [statInFlight EXCEPT ![path] = @ - 1]
  /\ \/ /\ lastStat' = StatEndedAfterFetch(path, "threw", TransportError.kind,
                                           TransportError.detail, NoStat, 0, 0, 0)
        /\ UNCHANGED <<responseCache, responseCacheHits, storedAge, storedUnder, evictTimers, connVars, panelFlows>>
     \/ \E status \in HttpStatuses \ {401} :
          /\ forConnection(status).kind # "ok"
          /\ lastStat' = StatEndedAfterFetch(path, "threw", forConnection(status).kind,
                                             forConnection(status).detail, NoStat,
                                             status, 0, 0)
          /\ UNCHANGED <<responseCache, responseCacheHits, storedAge, storedUnder, evictTimers, connVars, panelFlows>>
     \/ \E authenticate \in BOOLEAN :
          /\ lastStat' = StatEndedAfterFetch(path, "threw", forConnection(401).kind,
                                             forConnection(401).detail, NoStat, 401, 1,
                                             IF authenticate THEN 1 ELSE 0)
          /\ IF authenticate THEN AuthenticationFailed ELSE UNCHANGED <<connVars, panelFlows, panelFlows>>
          /\ UNCHANGED <<responseCache, responseCacheHits, storedAge, storedUnder, evictTimers>>
     \/ \E status \in HttpStatuses :
          /\ forConnection(status).kind = "ok"
          /\ \/ \* json.data has no entry of that name
                /\ lastStat' = StatEndedAfterFetch(path, "threw", "FileNotFound", "uri",
                                                   NoStat, status, 0, 0)
                /\ UNCHANGED <<responseCache, responseCacheHits, storedAge, storedUnder, evictTimers>>
             \/ \E attributes \in RemoteAttributes :
                  /\ StatStore(path, ResponseStat(attributes))
                  /\ lastStat' = StatEndedAfterFetch(path, "returned", "ok", "",
                                                     ResponseStat(attributes), status, 0, 0)
          /\ UNCHANGED <<connVars, panelFlows, panelFlows>>
  /\ UNCHANGED <<statCalls, notStat>>

\* the oldest eviction timer of the path is due: its callback deletes whatever
\* entry is under the key
EvictTimerFires(path) ==
  /\ evictTimers[path] # <<>>
  /\ Head(evictTimers[path]) >= CacheTtl
  /\ evictTimers' = [evictTimers EXCEPT ![path] = Tail(@)]
  /\ responseCache' = CacheEvicted(responseCache, StatCacheKey(path))
  /\ responseCacheHits' = MapDelete(responseCacheHits, StatCacheKey(path))
  /\ storedAge' = [k \in DOMAIN responseCache' |-> storedAge[k]]
  /\ storedUnder' = [k \in DOMAIN responseCache' |-> storedUnder[k]]
  /\ UNCHANGED <<statInFlight, lastStat, statCalls, connVars, panelFlows, notStat>>

\* the time since an entry was stored, as far as the model follows it
AgeCap == 2 * CacheTtl
Later(age, delay) == IF age + delay > AgeCap THEN AgeCap ELSE age + delay

\* time passes between two tasks; a timer is run when it is due
TimePasses(delay) ==
  /\ \A path \in Paths : \A i \in DOMAIN evictTimers[path] :
       evictTimers[path][i] + delay <= CacheTtl
  /\ DOMAIN storedAge # {} \/ \E path \in Paths : evictTimers[path] # <<>>
  /\ evictTimers' = [path \in Paths |->
                       [i \in DOMAIN evictTimers[path] |-> evictTimers[path][i] + delay]]
  /\ storedAge' = [k \in DOMAIN storedAge |-> Later(storedAge[k], delay)]
  /\ UNCHANGED <<responseCache, responseCacheHits, storedUnder, statInFlight, lastStat, statCalls,
                 connVars, panelFlows, notStat>>

(***************************************************************************)
(* PterodactylFileSystemProvider: writeFile, createDirectory, delete,      *)
(* rename, copy, readDirectory (and stat as one call of the same kind)     *)
(***************************************************************************)
Call(op, path, dest, create, overwrite, recursive) ==
  [ op |-> op, path |-> path, dest |-> dest, create |-> create,
    overwrite |-> overwrite, recursive |-> recursive ]

NoCall == Call("none", "", "", FALSE, FALSE, FALSE)

\* the files copy is called on
Sources == {"/new.txt", "/dir/a.tar.gz"}

\* the calls of the model
BridgeCalls ==
  { Call("stat", path, "", FALSE, FALSE, FALSE) : path \in Paths }
  \cup { Call("readDirectory", RootPath, "", FALSE, FALSE, FALSE) }
  \cup { Call("createDirectory", "/dir", "", FALSE, FALSE, FALSE) }
  \cup { Call("delete", "/new.txt", "", FALSE, FALSE, recursive) : recursive \in BOOLEAN }
  \cup { Call("rename", "/new.txt", dest, FALSE, overwrite, FALSE) :
           dest \in Destinations, overwrite \in BOOLEAN }
  \cup { Call("copy", source, dest, FALSE, overwrite, FALSE) :
           source \in Sources, dest \in Destinations, overwrite \in BOOLEAN }
  \cup UNION { { Call("writeFile", path, "", create, overwrite, FALSE) :
                   create \in BOOLEAN, overwrite \in BOOLEAN } : path \in Paths }

\* path.split("/").slice(0, -1).join("/") || "/"
ParentFolder(path) ==
  CASE path \in {"/dir/new.txt", "/dir/a.tar.gz"} -> "/dir"
    [] OTHER -> "/"

Ok == [kind |-> "ok", detail |-> ""]
\* no rename request was built
NoRename == [from |-> <<>>, to |-> <<>>]
Pending == [kind |-> "none", detail |-> ""]

\* how a fetch may settle: with a response of some status, or (0) by rejecting
Answers == HttpStatuses \cup {0}

\* what the user may answer to the prompt forConnection shows on a 401
Choices(answer) == IF answer = 401 THEN BOOLEAN ELSE {FALSE}

\* await fetch(...) followed by await this.forConnection(...): "ok" or the error
ResponseOutcome(answer) == IF answer = 0 THEN TransportError ELSE forConnection(answer)

\* the response is taken for a success whatever its status
NothingRejected(answer) == FALSE
\* the fetch rejects or forConnection throws for its response
Rejected(answer) == ResponseOutcome(answer).kind # "ok"

\* forConnection, case 401: the prompt and, on "Authenticate", the callback
Prompt(answer, authenticate) ==
  /\ opWarnings' = opWarnings + (IF answer = 401 THEN 1 ELSE 0)
  /\ opCallbacks' = opCallbacks + (IF answer = 401 /\ authenticate THEN 1 ELSE 0)
  /\ IF answer = 401 /\ authenticate THEN AuthenticationFailed ELSE UNCHANGED <<connVars, panelFlows, panelFlows>>

OpEnds(pc, error) ==
  /\ opPc' = pc
  /\ opResult' = [kind |-> error.kind, detail |-> error.detail]

\* the call goes on to await the fetch of one more request
OpAwaits(pc, requests, request) ==
  /\ opPc' = pc
  /\ opResult' = Pending
  /\ opRequests' = Append(requests, request)

\* the error the try block of writeFile raises for the result of stat
ProbeError(call, found, stat) ==
  IF ~found THEN "stat"
  ELSE IF stat.type = {"Directory"} THEN "FileIsADirectory"
  ELSE IF call.overwrite = FALSE THEN "FileExists"
  ELSE "none"

\* the catch block swallows the error whatever create is
CatchSwallows(call) == FALSE
\* the catch block rethrows the error whatever create is
CatchRethrowsAll(call) == TRUE
\* the catch block of writeFile: if (options.create === false) throw FileNotFound
CatchRethrows(call) == call.create = FALSE

\* the empty file is written first whether or not the path exists
PrecreateAlways(call, fileExists) == call.create
\* if (fileExists === false && options.create)
Precreates(call, fileExists) == fileExists = FALSE /\ call.create

\* writeFile lines 340-371 once stat has returned (found) or thrown
WriteContinues(call, requests, found, stat) ==
  /\ opFileExists' = found
  /\ opFileStat' = stat
  /\ IF ProbeError(call, found, stat) # "none" /\ CatchRethrows(call)
     THEN /\ OpEnds("threw", [kind |-> "FileNotFound", detail |-> "uri"])
          /\ opRequests' = requests
     ELSE IF Precreates(call, found)
     THEN OpAwaits("precreate", requests, "write-empty")
     ELSE OpAwaits("decide", requests, "write")

\* the caller of stat gets its result: stat() itself, or the try block of writeFile
AfterStat(call, requests, found, stat, error) ==
  IF call.op = "stat"
  THEN /\ opRequests' = requests
       /\ opFileExists' = FALSE
       /\ opFileStat' = NoStat
       /\ OpEnds(IF found THEN "returned" ELSE "threw", error)
  ELSE WriteContinues(call, requests, found, stat)

\* stat without lines 279-284: the cache is never looked up
NeverCached(call) ==
  /\ UNCHANGED responseCacheHits
  /\ opFileExists' = FALSE
  /\ opFileStat' = NoStat
  /\ OpAwaits("probe", <<>>, "list")

\* stat lines 278-301 inside the call: a hit, the root, or the listing fetch
StatProbe(call) ==
  IF StatCacheKey(call.path) \in DOMAIN responseCache
  THEN /\ responseCacheHits' = HitsCounted(responseCacheHits, StatCacheKey(call.path))
       /\ AfterStat(call, <<>>, TRUE, responseCache[StatCacheKey(call.path)], Ok)
  ELSE IF call.path = RootPath
  THEN /\ UNCHANGED responseCacheHits
       /\ AfterStat(call, <<>>, TRUE, RootStat, Ok)
  ELSE /\ UNCHANGED responseCacheHits
       /\ opFileExists' = FALSE
       /\ opFileStat' = NoStat
       /\ OpAwaits("probe", <<>>, "list")

\* the first request of the operations that start with one, and where the
\* call waits for its answer
FirstStep(call) ==
  CASE call.op = "createDirectory" -> <<"create-folder", "decide">>
    [] call.op = "readDirectory" -> <<"list", "decide">>
    [] call.op = "delete" ->
         IF call.recursive = FALSE THEN <<"list", "prelist">> ELSE <<"delete", "decide">>
    [] call.op = "rename" ->
         IF call.overwrite THEN <<"delete", "predelete">> ELSE <<"rename", "decide">>
    [] call.op = "copy" ->
         IF call.overwrite THEN <<"delete", "predelete">> ELSE <<"copy", "copy">>

\* the network is reached although there is no server API URL
ConnectionAssumed == TRUE
\* ensureConnected() returns
EnsuredConnected == BridgeConnected

\* the call is made on the path a delete or rename before it has returned for
Follows(call, before, pc) ==
  /\ before.op \in {"delete", "rename"}
  /\ pc = "returned"
  /\ before.path = call.path

\* a bridge operation is called: the call up to its first await
OpCall(call) ==
  /\ opPc \in {"idle", "returned", "threw"}
  /\ opCalls' = opCalls + 1
  /\ opCall' = call
  /\ opFollows' = Follows(call, opCall, opPc)
  /\ opAnswers' = <<>>
  /\ opItems' = <<>>
  /\ opRenameFiles' = NoRename
  /\ opWarnings' = 0
  /\ opCallbacks' = 0
  /\ IF ~EnsuredConnected
     THEN /\ OpEnds("threw", NotConnectedError)
          /\ opRequests' = <<>>
          /\ opFileExists' = FALSE
          /\ opFileStat' = NoStat
          /\ UNCHANGED responseCacheHits
     ELSE IF call.op \in {"stat", "writeFile"}
     THEN StatProbe(call)
     ELSE /\ OpAwaits(FirstStep(call)[2], <<>>, FirstStep(call)[1])
          /\ opFileExists' = FALSE
          /\ opFileStat' = NoStat
          /\ UNCHANGED responseCacheHits
  /\ UNCHANGED <<responseCache, evictTimers, storedAge, storedUnder, connVars, panelFlows, notOp>>

\* the listing fetch of the stat inside the call settles
OpProbeSettles ==
  /\ opPc = "probe"
  /\ \E answer \in Answers : \E authenticate \in Choices(answer) :
       /\ opAnswers' = Append(opAnswers, answer)
       /\ Prompt(answer, authenticate)
       /\ IF ResponseOutcome(answer).kind # "ok"
          THEN /\ AfterStat(opCall, opRequests, FALSE, NoStat, ResponseOutcome(answer))
               /\ UNCHANGED cacheVars
          ELSE \/ \* json.data has no entry of that name
                  /\ AfterStat(opCall, opRequests, FALSE, NoStat,
                               [kind |-> "FileNotFound", detail |-> "uri"])
                  /\ UNCHANGED cacheVars
               \/ \E attributes \in RemoteAttributes :
                    /\ StatStore(opCall.path, ResponseStat(attributes))
                    /\ AfterStat(opCall, opRequests, TRUE, ResponseStat(attributes), Ok)
  /\ UNCHANGED <<opCall, opFollows, opItems, opRenameFiles, opCalls, notOp>>

\* writeFile lines 359-370: the empty write settles; its response is only
\* logged and its failure swallowed, then the content is uploaded
OpPrecreateSettles ==
  /\ opPc = "precreate"
  /\ \E answer \in Answers : opAnswers' = Append(opAnswers, answer)
  /\ OpAwaits("decide", opRequests, "write")
  /\ UNCHANGED <<opCall, opFollows, opFileExists, opFileStat, opItems, opRenameFiles, opWarnings,
                 opCallbacks, opCalls, cacheVars,
                 connVars, panelFlows, notOp>>

\* readDirectory lines 205-217: json.data.map(file => [name, type])
readDirectoryItems(data) ==
  [i \in 1..Len(data) |-> <<data[i].name, getFileType(data[i].is_file, data[i].is_symlink)>>]

\* the listing is taken for empty whatever it holds
NeverFull(items) == FALSE
\* delete line 170: if (items.length > 0)
NotEmpty(items) == Len(items) > 0

\* delete lines 164-173: readDirectory(uri) settles; its error is swallowed
\* (items stays empty) and a non-empty listing ends the call
OpPrelistSettles ==
  /\ opPc = "prelist"
  /\ \E answer \in Answers : \E authenticate \in Choices(answer) :
       /\ opAnswers' = Append(opAnswers, answer)
       /\ Prompt(answer, authenticate)
       /\ \E items \in (IF ResponseOutcome(answer).kind = "ok"
                       THEN { readDirectoryItems(data) : data \in RemoteData } ELSE {<<>>}) :
            /\ opItems' = items
            /\ IF NotEmpty(items)
               THEN /\ OpEnds("threw", [kind |-> "Unavailable", detail |-> "Directory not empty"])
                    /\ opRequests' = opRequests
               ELSE OpAwaits("decide", opRequests, "delete")
  /\ UNCHANGED <<opCall, opFollows, opFileExists, opFileStat, opRenameFiles, opCalls, cacheVars, notOp>>

\* rename lines 252-256, copy lines 95-99: delete(destination) settles; its
\* error is swallowed and the operation's own request follows
OpPredeleteSettles ==
  /\ opPc = "predelete"
  /\ \E answer \in Answers : \E authenticate \in Choices(answer) :
       /\ opAnswers' = Append(opAnswers, answer)
       /\ Prompt(answer, authenticate)
  /\ IF opCall.op = "rename"
     THEN OpAwaits("decide", opRequests, "rename")
     ELSE OpAwaits("copy", opRequests, "copy")
  /\ UNCHANGED <<opCall, opFollows, opFileExists, opFileStat, opItems, opRenameFiles, opCalls, cacheVars,
                 notOp>>

\* uri.path as the sequence of its characters, for the paths of the model
Chars(path) ==
  CASE path = "/new.txt" -> <<"/", "n", "e", "w", ".", "t", "x", "t">>
    [] path = "/copy.txt" -> <<"/", "c", "o", "p", "y", ".", "t", "x", "t">>
    [] path = "/dir/new.txt" -> <<"/", "d", "i", "r", "/", "n", "e", "w", ".", "t", "x", "t">>
    [] path = "/dir/a.tar.gz" ->
         <<"/", "d", "i", "r", "/", "a", ".", "t", "a", "r", ".", "g", "z">>
    [] OTHER -> <<"/">>

\* String.prototype.split(separator)
RECURSIVE Split(_, _)
Split(chars, separator) ==
  IF \A i \in 1..Len(chars) : chars[i] # separator
  THEN <<chars>>
  ELSE LET first == CHOOSE i \in 1..Len(chars) :
                      chars[i] = separator /\ \A j \in 1..(i - 1) : chars[j] # separator
       IN <<SubSeq(chars, 1, first - 1)>> \o Split(SubSeq(chars, first + 1, Len(chars)), separator)

\* Array.prototype.join(separator)
RECURSIVE Join(_, _)
Join(segments, separator) ==
  IF segments = <<>> THEN <<>>
  ELSE IF Len(segments) = 1 THEN segments[1]
  ELSE segments[1] \o <<separator>> \o Join(Tail(segments), separator)

\* slice(0, -1)
SliceButLast(segments) == SubSeq(segments, 1, Len(segments) - 1)
\* pop(), at(-1)
LastOf(segments) == segments[Len(segments)]

\* path.replace(/^\//, "")
removeStartSlash(chars) ==
  IF chars # <<>> /\ Head(chars) = "/" THEN Tail(chars) ELSE chars

\* copy lines 113, 119: path.split("/").slice(0, -1).join("/") || "/"
FolderChars(chars) ==
  LET joined == Join(SliceButLast(Split(chars, "/")), "/")
  IN IF joined = <<>> THEN <<"/">> ELSE joined

\* copy lines 114-118: `${oldNamePrefix} copy.${oldNameSuffix}`
copiedLocation(chars) ==
  LET oldName == LastOf(Split(chars, "/"))
      oldNameSegments == Split(oldName, ".")
      oldNamePrefix == Join(SliceButLast(oldNameSegments), ".")
      oldNameSuffix == LastOf(oldNameSegments)
  IN oldNamePrefix \o <<" ", "c", "o", "p", "y", ".">> \o oldNameSuffix

\* copy lines 135-138: the files entry of the rename request
RenameFiles(source, destination) ==
  [ from |-> removeStartSlash(FolderChars(Chars(source)) \o <<"/">>
                                \o copiedLocation(Chars(source))),
    to |-> removeStartSlash(FolderChars(Chars(destination)) \o <<"/">>
                              \o LastOf(Split(Chars(destination), "/"))) ]

\* the copy stays where the panel put it whatever the destination folder
SameDirectoryAlways(source, destination) == TRUE
\* copy line 121: if (oldPath === newPath)
SameDirectory(source, destination) ==
  FolderChars(Chars(source)) = FolderChars(Chars(destination))

\* copy lines 101-141: the copy request settles; in another folder the copy is
\* then renamed
OpCopySettles ==
  /\ opPc = "copy"
  /\ \E answer \in Answers : \E authenticate \in Choices(answer) :
       /\ opAnswers' = Append(opAnswers, answer)
       /\ Prompt(answer, authenticate)
       /\ IF Rejected(answer)
          THEN /\ OpEnds("threw", ResponseOutcome(answer))
               /\ UNCHANGED <<opRequests, opRenameFiles>>
          ELSE IF SameDirectory(opCall.path, opCall.dest)
          THEN /\ OpEnds("returned", Ok)
               /\ UNCHANGED <<opRequests, opRenameFiles>>
          ELSE /\ OpAwaits("decide", opRequests, "rename")
               /\ opRenameFiles' = RenameFiles(opCall.path, opCall.dest)
  /\ UNCHANGED <<opCall, opFollows, opFileExists, opFileStat, opItems, opCalls, cacheVars, notOp>>

\* the last request of the call settles: forConnection decides the outcome
OpDecideSettles ==
  /\ opPc = "decide"
  /\ \E answer \in Answers : \E authenticate \in Choices(answer) :
       /\ opAnswers' = Append(opAnswers, answer)
       /\ Prompt(answer, authenticate)
       /\ IF Rejected(answer)
          THEN OpEnds("threw", ResponseOutcome(answer)) /\ UNCHANGED opItems
          ELSE /\ OpEnds("returned", Ok)
               /\ IF opCall.op = "readDirectory"
                  THEN \E data \in RemoteData : opItems' = readDirectoryItems(data)
                  ELSE UNCHANGED opItems
  /\ UNCHANGED <<opCall, opFollows, opFileExists, opFileStat, opRenameFiles, opRequests, opCalls, cacheVars,
                 notOp>>

\* an eviction timer of the stat cache runs
BridgeTimerFires ==
  \E path \in Paths : EvictTimerFires(path)

\* time passes between two tasks. The calls of a behaviour run one at a time,
\* so an entry has one timer and what a call finds depends only on whether
\* that timer has run: time is followed in steps of the ttl
BridgeTimePasses == TimePasses(CacheTtl)

\* the reset command, once, after the extension is initialized
BridgeReset ==
  /\ events = 1
  /\ ResetCommand

\* readFile is called in a behaviour without calls of the other operations;
\* activate() registers the provider and calls initialize() in one task, so no
\* call of the provider runs before initialize()
BridgeReadFile ==
  /\ events > 0
  /\ opCalls = 0
  /\ ReadFileCall

\* another operation is called in a behaviour without readFile calls
BridgeCall ==
  /\ events > 0
  /\ readCalls = 0
  /\ opCalls < MaxOps
  /\ \E call \in BridgeCalls : OpCall(call)

Init ==
  /\ cfgServerId \in ServerIds \cup {""}
  /\ cfgApiKey \in ApiKeys \cup {""}
  /\ serverApiUrl = hydrateServerApiUrl(cfgServerId)
  /\ authHeader = hydrateAuthHeader(cfgApiKey)
  /\ refreshInFlight = FALSE
  /\ refreshQueued = FALSE
  /\ refreshInterval = FALSE
  /\ refreshBodies = 0
  /\ statusTimers = NoTimers
  /\ powerInFlight = 0
  /\ powerLast = NoSignal
  /\ dropPc = "idle"
  /\ dropItems = <<>>
  /\ dropTarget = RootUri
  /\ dropBatch = <<>>
  /\ dropCalls = <<>>
  /\ dropReported = <<>>
  /\ dropRefreshes = 0
  /\ dropCount = 0
  /\ remoteFiles = { item.uri : item \in { i \in DragItems : i.isFile } }
  /\ statusText = ""
  /\ refreshLast = NoBody
  /\ openButtonShown = FALSE
  /\ events = 0
  /\ callFlip = FALSE
  /\ callsDuring = 0
  /\ unserved = FALSE
  /\ allItemsByDirectory = EmptyMap
  /\ visibleItemsByDirectory = EmptyMap
  /\ loadInFlightByDirectory = {}
  /\ refreshTargetByDirectory = {}
  /\ revealTimersByDirectory = {}
  /\ listings = [d \in Dirs |-> [fresh |-> 0, stale |-> 0]]
  /\ revealPending = [d \in Dirs |-> NoReveal]
  /\ treeOp = NoOp
  /\ awaitingFirst = {}
  /\ notifications = [d \in Dirs |-> 0]
  /\ failedDirs = {}
  /\ getChildrenCalls = 0
  /\ refreshCalls = 0
  /\ readPc = "idle"
  /\ readAttempt = 1
  /\ readLastError = NoError
  /\ readResult = NoError
  /\ readFetches = 0
  /\ readOutcomes = <<>>
  /\ readDelays = <<>>
  /\ readCalls = 0
  /\ authWarnings = 0
  /\ authCallbacks = 0
  /\ responseCache = EmptyMap
  /\ responseCacheHits = EmptyMap
  /\ evictTimers = [path \in Paths |-> <<>>]
  /\ statInFlight = [path \in Paths |-> 0]
  /\ storedAge = EmptyMap
  /\ storedUnder = EmptyMap
  /\ lastStat = NoStatCall
  /\ statCalls = 0
  /\ opCall = NoCall
  /\ opFollows = FALSE
  /\ opPc = "idle"
  /\ opFileExists = FALSE
  /\ opFileStat = NoStat
  /\ opItems = <<>>
  /\ opRenameFiles = NoRename
  /\ opResult = Pending
  /\ opRequests = <<>>
  /\ opAnswers = <<>>
  /\ opWarnings = 0
  /\ opCallbacks = 0
  /\ opCalls = 0
  /\ panelFlows = EmptyBag
  /\ panelLast = NoFlow
  /\ onConnectedCalls = 0
  /\ panelCalls = 0

NextStatus ==
  \/ Initialize
  \/ Tick
  \/ Dispose
  \/ TimerFire
  \/ RefreshFinish
  \/ ConfigChange
  \/ ResetCommand
  \/ ClearApiKeyCommand
  \/ RefreshCommand
  \/ SendPowerSignal
  \/ PowerAnswer

SpecStatus == Init /\ [][NextStatus]_vars

NextTree ==
  \/ TreeGetChildren
  \/ DropRefresh
  \/ LoadCompletes
  \/ RevealTimerFires

SpecTree == Init /\ [][NextTree]_vars

NextDrop ==
  \/ HandleDrop
  \/ DropCallSettles

SpecDrop == Init /\ [][NextDrop]_vars

NextRead ==
  \/ ReadFileCall
  \/ ReadAttemptSettles
  \/ ReadDelayElapses

SpecRead == Init /\ [][NextRead]_vars

NextStat ==
  \/ \E path \in Paths : StatCall(path)
  \/ \E path \in Paths : StatSettles(path)
  \/ \E path \in Paths : EvictTimerFires(path)
  \/ \E delay \in Delays : TimePasses(delay)

SpecStat == Init /\ [][NextStat]_vars

NextBridge ==
  \/ Initialize
  \/ BridgeReset
  \/ BridgeCall
  \/ OpProbeSettles
  \/ OpPrecreateSettles
  \/ OpPrelistSettles
  \/ OpPredeleteSettles
  \/ OpCopySettles
  \/ OpDecideSettles
  \/ BridgeTimerFires
  \/ BridgeTimePasses
  \/ BridgeReadFile
  \/ ReadAttemptSettles
  \/ ReadDelayElapses

SpecBridge == Init /\ [][NextBridge]_vars

\* timers fire and fetches settle
\* the settings change, or a command runs, while connect flows are under way
PanelConfigChange ==
  /\ events <= MaxPanelEvents
  /\ ConfigChange

PanelReset ==
  /\ events <= MaxPanelEvents
  /\ ResetCommand

PanelClearApiKey ==
  /\ events <= MaxPanelEvents
  /\ ClearApiKeyCommand

NextPanel ==
  \/ Initialize
  \/ PanelStart
  \/ PanelInput
  \/ PanelFetchSettles
  \/ PanelSetApiKey
  \/ PanelPick
  \/ PanelSetServerId
  \/ PanelConnected
  \/ AuthFailureObserved
  \/ PanelConfigChange
  \/ PanelReset
  \/ PanelClearApiKey

SpecPanel == Init /\ [][NextPanel]_vars

FairSpecStatus == SpecStatus /\ WF_vars(TimerFire) /\ WF_vars(RefreshFinish)

\* stat is called on the bridge while the connection is reset and made anew
ReconnectStat ==
  /\ events > 0
  /\ opCalls < MaxOps
  /\ \E path \in Paths : OpCall(Call("stat", path, "", FALSE, FALSE, FALSE))

NextReconnect ==
  \/ Initialize
  \/ BridgeReset
  \/ ReconnectStat
  \/ OpProbeSettles
  \/ BridgeTimerFires
  \/ BridgeTimePasses
  \/ PanelStart
  \/ PanelInput
  \/ PanelFetchSettles
  \/ PanelSetApiKey
  \/ PanelPick
  \/ PanelSetServerId
  \/ PanelConnected

SpecReconnect == Init /\ [][NextReconnect]_vars

\* the calls made on one file: stat, and the operations that change the remote
MutateCalls ==
  { Call("stat", "/new.txt", "", FALSE, FALSE, FALSE),
    Call("writeFile", "/new.txt", "", TRUE, TRUE, FALSE),
    Call("createDirectory", "/dir", "", FALSE, FALSE, FALSE),
    Call("copy", "/new.txt", "/copy.txt", FALSE, FALSE, FALSE) }
  \cup { Call("delete", "/new.txt", "", FALSE, FALSE, recursive) : recursive \in BOOLEAN }
  \cup { Call("rename", "/new.txt", "/copy.txt", FALSE, overwrite, FALSE) :
           overwrite \in BOOLEAN }

\* stat and the mutating operations are called one after the other
MutateCall ==
  /\ events > 0
  /\ opCalls < MaxMutations
  /\ \E call \in MutateCalls : OpCall(call)

NextMutate ==
  \/ Initialize
  \/ MutateCall
  \/ OpProbeSettles
  \/ OpPrecreateSettles
  \/ OpPrelistSettles
  \/ OpPredeleteSettles
  \/ OpCopySettles
  \/ OpDecideSettles
  \/ BridgeTimerFires
  \/ BridgeTimePasses

SpecMutate == Init /\ [][NextMutate]_vars

(***************************************************************************)
(* Directory reveal engine: the claims                                     *)
(***************************************************************************)
Outstanding(d) == listings[d].fresh + listings[d].stale

IsPrefix(s, t) == Len(s) <= Len(t) /\ SubSeq(t, 1, Len(s)) = s

\* C4: for every directory at most one listing request of the tree provider is
\* outstanding at any time, and a getChildren() that finds one outstanding
\* starts no second one.
C4_SingleFlightPerDirectory ==
  \A d \in Dirs : Outstanding(d) <= 1

\* C5: the first getChildren() of a directory after a refresh() returns the
\* empty list and starts a fresh load (readDirectory is called), whatever loads
\* were outstanding at the refresh() and whenever they complete.
C5_FreshLoadAfterRefresh ==
  (treeOp.op = "getChildren" /\ treeOp.first) =>
    (treeOp.ret = <<>> /\ treeOp.started)

\* C6: no reveal timer that was scheduled before a refresh() fires after it.
C6_NoTimerSurvivesRefresh ==
  ~(treeOp.op = "timer" /\ treeOp.stale)

\* C7: whenever a directory has both lists, visibleEntries is a prefix of
\* allEntries.
C7_VisibleIsPrefix ==
  \A d \in DOMAIN allItemsByDirectory \cap DOMAIN visibleItemsByDirectory :
    IsPrefix(visibleItemsByDirectory[d], allItemsByDirectory[d])

\* C7 witness: after a refresh(), a directory is partly revealed by a timer.
C7_Witness ==
  \E d \in DOMAIN allItemsByDirectory \cap DOMAIN visibleItemsByDirectory :
    /\ refreshCalls > 0
    /\ Len(allItemsByDirectory[d]) = 3
    /\ treeOp.op = "timer" /\ treeOp.dir = d
    /\ Len(visibleItemsByDirectory[d]) = 2

\* C8: once a listing of n entries has been stored (and until a refresh()), the
\* notifications emitted for the directory are one per revealed element: their
\* number is the length of visibleEntries, at most n, and n once the reveal is
\* over (visibleEntries = allEntries and no timer pending for the directory).
C8_OneNotificationPerRevealedItem ==
  \A d \in DOMAIN allItemsByDirectory \cap DOMAIN visibleItemsByDirectory :
    notifications[d] = Len(visibleItemsByDirectory[d])

C1_SingleFlightRefresh ==
  /\ [](refreshBodies <= 1)
  /\ [][(refreshBodies >= 1 /\ callFlip' # callFlip) =>
          /\ refreshQueued'
          /\ refreshBodies' = refreshBodies
          /\ refreshInFlight' = refreshInFlight
          /\ statusText' = statusText
          /\ \A d \in DOMAIN statusTimers : statusTimers'[d] <= statusTimers[d]]_vars

\* C1 witness: two requestRefresh() calls have arrived while a refresh runs.
C1_Witness ==
  refreshBodies = 1 /\ refreshQueued /\ callsDuring >= 2

\* C2: when a running refresh finishes, exactly one trailing refresh is
\* scheduled, 250ms later, if one or more requestRefresh() calls arrived while
\* it ran, and none is scheduled otherwise.
C2_OneTrailingRefresh ==
  [][refreshBodies' < refreshBodies =>
       IF callsDuring >= 1
       THEN statusTimers' = [statusTimers EXCEPT ![250] = @ + 1]
       ELSE statusTimers' = statusTimers]_vars

\* C2 witness: a refresh that two calls found running has finished and its one
\* trailing refresh is pending.
C2_Witness ==
  /\ refreshBodies = 0 /\ ~refreshInFlight /\ ~refreshQueued
  /\ callsDuring >= 2
  /\ statusTimers[250] = 1 /\ statusTimers[750] = 0

\* C3: provided timers fire and fetches settle, every requestRefresh() call is
\* followed by the start of a refresh body, and refreshInFlight does not stay
\* true forever.
C3_RefreshEventuallyRuns ==
  /\ unserved ~> ~unserved
  /\ refreshInFlight ~> ~refreshInFlight

\* C3 witness: a call that found a refresh running waits for the settle timer.
C3_Witness ==
  unserved /\ ~refreshInFlight /\ statusTimers[250] > 0

(***************************************************************************)
(* readFile: the claims                                                    *)
(***************************************************************************)
Failures(outcomes) == Cardinality({i \in DOMAIN outcomes : outcomes[i] # "ok"})

\* C10: a readFile call issues at most 3 content fetches; the first successful
\* attempt returns its payload and ends the call; the retry after failed
\* attempt 1 is preceded by a delay of 200ms and the one after failed attempt 2
\* by 400ms, no delay follows the third failure, and then the third attempt's
\* error is raised; fail, fail, succeed returns the payload after 2 delays.
C10_ReadRetries ==
  /\ readFetches <= 3
  /\ Len(readOutcomes) <= readFetches
  /\ \A i \in DOMAIN readOutcomes : readOutcomes[i] = "ok" => i = Len(readOutcomes)
  /\ readDelays = SubSeq(<<200, 400>>, 1,
                         IF Failures(readOutcomes) < 2 THEN Failures(readOutcomes) ELSE 2)
  /\ readPc = "fetch" => readFetches = Len(readOutcomes) + 1
  /\ readPc = "delay" => readFetches = Len(readOutcomes) /\ readFetches < 3
  /\ readPc = "returned" =>
       /\ readFetches = Len(readOutcomes)
       /\ readOutcomes[Len(readOutcomes)] = "ok"
       /\ readResult \in Payloads
  /\ (readPc = "threw" /\ readFetches > 0) =>
       /\ readFetches = 3
       /\ Failures(readOutcomes) = 3
       /\ readResult.attempt = 3
       /\ readResult.kind = readOutcomes[3]
  /\ (readPc = "returned" /\ Len(readOutcomes) = 3) => readDelays = <<200, 400>>

\* C10 witness: fail, fail, succeed.
C10_Witness ==
  /\ readPc = "returned"
  /\ readOutcomes = <<"TypeError", "TypeError", "ok">>
  /\ readResult = "bytes1"
  /\ readDelays = <<200, 400>>

(***************************************************************************)
(* Filesystem bridge: the claims                                           *)
(***************************************************************************)
\* the step is a stat(path) call
CalledStat(path) ==
  /\ statCalls' = statCalls + 1
  /\ \/ statInFlight'[path] > statInFlight[path]
     \/ statInFlight' = statInFlight /\ lastStat'.path = path

\* C15: a stat(p) of a non-root path that finds a live entry under p's key (one
\* a successful stat(p) stored and no timer has evicted) returns exactly the
\* stored metadata, issues no network call, and adds exactly one to the hit
\* counter of p; the entry is the metadata the storing call returned, stored
\* with a hit counter of 0.
C15_LiveEntryIsServed ==
  [][\A path \in Paths \ {RootPath} :
       /\ (CalledStat(path) /\ BridgeConnected
             /\ StatCacheKey(path) \in DOMAIN responseCache) =>
            /\ lastStat'.pc = "returned" /\ lastStat'.hit
            /\ lastStat'.stat = responseCache[StatCacheKey(path)]
            /\ ~lastStat'.fetched /\ statInFlight' = statInFlight
            /\ responseCache' = responseCache
            /\ StatCacheKey(path) \in DOMAIN responseCacheHits
            /\ responseCacheHits'[StatCacheKey(path)] =
                 responseCacheHits[StatCacheKey(path)] + 1
       /\ (statInFlight'[path] < statInFlight[path] /\ lastStat'.pc = "returned") =>
            /\ responseCache'[StatCacheKey(path)] = lastStat'.stat
            /\ responseCacheHits'[StatCacheKey(path)] = 0]_vars

\* C15 witness: the second hit on an entry, 5 seconds after it was stored, while
\* the panel would by now report other attributes.
C15_Witness ==
  /\ lastStat.path = "/new.txt" /\ lastStat.hit /\ lastStat.pc = "returned"
  /\ lastStat.age = CacheTtl \div 2
  /\ lastStat.stat.size = 2
  /\ responseCacheHits[StatCacheKey("/new.txt")] = 2

\* C16: no entry of the cache, and none a stat() has served, was stored more
\* than 10 seconds earlier, whatever the order in which concurrent misses of
\* one path store their entries and their eviction timers run (a timer runs
\* when it is due).
C16_NoEntryOlderThanTtl ==
  /\ \A key \in DOMAIN responseCache : storedAge[key] <= CacheTtl
  /\ lastStat.hit => lastStat.age <= CacheTtl

\* C16 witness: two misses of one path have both stored it, both timers are
\* pending, and a stat() is served the entry 10 seconds after it was stored.
C16_Witness ==
  /\ lastStat.hit /\ lastStat.age = CacheTtl
  /\ Len(evictTimers[lastStat.path]) = 2

\* C11: readFile does not retry an attempt that failed with an error the
\* status rule raised (NoPermissions, FileNotFound, Unavailable): that attempt
\* is the call's last and its error is what the call raises.
C11_StatusErrorsNotRetried ==
  \A i \in DOMAIN readOutcomes :
    readOutcomes[i] \in {"NoPermissions", "FileNotFound", "Unavailable"} =>
      /\ i = 1 /\ Len(readOutcomes) = 1
      /\ readFetches = 1
      /\ readPc = "threw"
      /\ readResult.kind = readOutcomes[i]

\* the call has ended
OpEnded == opPc \in {"returned", "threw"}
ReadEnded == readPc \in {"returned", "threw"}

\* C12: a bridge call one of whose requests was answered 401 has invoked the
\* authentication-failure callback exactly once when it ends, and it ends by
\* raising NoPermissions.
C12_AuthFailureCalledOnce ==
  /\ (OpEnded /\ \E i \in DOMAIN opAnswers : opAnswers[i] = 401) =>
       /\ opCallbacks = 1
       /\ opPc = "threw" /\ opResult.kind = "NoPermissions"
  /\ (ReadEnded /\ authWarnings > 0) =>
       /\ authCallbacks = 1
       /\ readPc = "threw" /\ readResult.kind = "NoPermissions"

\* the status-mapping rule of the bridge
StatusRule(status) ==
  CASE status \in 200..299 -> [kind |-> "ok", detail |-> ""]
    [] status \in {401, 403} -> [kind |-> "NoPermissions", detail |-> "url"]
    [] status = 404 -> [kind |-> "FileNotFound", detail |-> "url"]
    [] status = 422 -> [kind |-> "Unavailable", detail |-> "remote detail"]
    [] status = 429 -> [kind |-> "Unavailable", detail |-> "ratelimited"]
    [] status = 500 -> [kind |-> "Unavailable", detail |-> "unable to handle"]
    [] OTHER -> [kind |-> "Unavailable", detail |-> "Unknown error"]

\* C13: when a call of stat, readDirectory, writeFile, createDirectory, delete,
\* rename or copy ends, its outcome is the status rule applied to the last
\* response it received: a non-2xx status makes it raise the error of the rule
\* (never return), and after a 2xx status it returns or fails only for what
\* the listing holds (no such entry, directory not empty).
C13_OneStatusRule ==
  (OpEnded /\ opAnswers # <<>> /\ opAnswers[Len(opAnswers)] # 0) =>
    IF StatusRule(opAnswers[Len(opAnswers)]).kind = "ok"
    THEN opPc = "returned" \/ opResult.detail \in {"uri", "Directory not empty"}
    ELSE opPc = "threw" /\ opResult = StatusRule(opAnswers[Len(opAnswers)])

\* C14: while serverApiUrl is empty, a call of any of the eight operations ends
\* at once by raising Unavailable, with no request issued and the stat cache,
\* its hit counters and its timers as they were.
C14_NotConnectedFailsFirst ==
  [][serverApiUrl = Empty =>
       /\ opCalls' = opCalls + 1 =>
            /\ opPc' = "threw" /\ opResult'.kind = "Unavailable"
            /\ opRequests' = <<>>
            /\ UNCHANGED cacheVars
       /\ readCalls' = readCalls + 1 =>
            /\ readPc' = "threw" /\ readResult'.kind = "Unavailable"
            /\ readFetches' = 0
            /\ UNCHANGED cacheVars]_vars

\* C14 witness: after a reset, a stat of a path that is still in the cache has
\* failed unconnected.
C14_Witness ==
  /\ serverApiUrl = Empty
  /\ opCalls = 2 /\ opCall.op = "stat"
  /\ StatCacheKey(opCall.path) \in DOMAIN responseCache
  /\ responseCacheHits[StatCacheKey(opCall.path)] = 0
  /\ opPc = "threw" /\ opResult = NotConnectedError
  /\ opRequests = <<>>

\* the call has issued the request
Issued(request) == \E i \in DOMAIN opRequests : opRequests[i] = request

\* the call is a writeFile whose stat has returned or thrown
WriteProbed == opCall.op = "writeFile" /\ opPc \notin {"idle", "probe"}

\* the stat of the writeFile call threw after its listing was answered
WriteNotFound == WriteProbed /\ ~opFileExists /\ Len(opAnswers) >= 1

\* C17: a writeFile whose stat finds a directory fails with FileIsADirectory,
\* whatever create and overwrite are, and issues no write request.
C17_DirectoryIsRefused ==
  (WriteProbed /\ opFileExists /\ opFileStat.type = {"Directory"}) =>
    /\ opPc = "threw" /\ opResult.kind = "FileIsADirectory"
    /\ ~Issued("write") /\ ~Issued("write-empty")

\* C18: a writeFile with overwrite = false whose stat finds a file fails with
\* FileExists, whatever create is, and issues no write request.
C18_ExistingFileIsKept ==
  (WriteProbed /\ opFileExists /\ "File" \in opFileStat.type /\ ~opCall.overwrite) =>
    /\ opPc = "threw" /\ opResult.kind = "FileExists"
    /\ ~Issued("write") /\ ~Issued("write-empty")

\* C19: a writeFile with create = false whose stat does not find the path fails
\* with FileNotFound and issues neither the empty write nor the upload.
C19_MissingIsNotCreated ==
  (WriteNotFound /\ ~opCall.create) =>
    /\ opPc = "threw" /\ opResult.kind = "FileNotFound"
    /\ opRequests = <<"list">>

\* C19 witness: the listing was answered 200 without the entry.
C19_Witness ==
  /\ WriteNotFound /\ ~opCall.create /\ opCall.overwrite
  /\ opAnswers = <<200>> /\ opPc = "threw"

\* C20: a writeFile with create = true whose stat does not find the path issues
\* the empty write and then the upload, once each and in that order; the call
\* returns exactly when the upload is answered 2xx, whatever the answer to the
\* empty write, and else raises the upload's error; a writeFile whose stat
\* finds the path issues no empty write.
C20_PrecreateThenUpload ==
  /\ (WriteNotFound /\ opCall.create) =>
       /\ opPc \in {"precreate", "decide", "returned", "threw"}
       /\ opPc = "precreate" => opRequests = <<"list", "write-empty">>
       /\ opPc # "precreate" => opRequests = <<"list", "write-empty", "write">>
       /\ opPc = "decide" => Len(opAnswers) = 2
       /\ opPc \in {"returned", "threw"} =>
            /\ Len(opAnswers) = 3
            /\ opPc = "returned" <=> ResponseOk(opAnswers[3])
            /\ opPc = "threw" => opResult = ResponseOutcome(opAnswers[3])
  /\ (WriteProbed /\ opFileExists) => ~Issued("write-empty")

\* C20 witness: the empty write failed in transport and the upload succeeded.
C20_Witness ==
  /\ WriteNotFound /\ opCall.create /\ ~opCall.overwrite
  /\ opPc = "returned"
  /\ opAnswers = <<200, 0, 200>>

\* C21: delete(path, {recursive: false}) first lists the target; when the
\* listing returns at least one entry the call fails with
\* Unavailable("Directory not empty") and issues no delete request
C21_NonEmptyIsNotDeleted ==
  (opCall.op = "delete" /\ ~opCall.recursive /\ opRequests # <<>>) =>
    /\ opRequests[1] = "list"
    /\ Len(opItems) > 0 =>
         /\ opPc = "threw"
         /\ opResult = [kind |-> "Unavailable", detail |-> "Directory not empty"]
         /\ ~Issued("delete")

\* a non-recursive delete was answered a listing of two entries and has ended
C21_Witness ==
  /\ opCall.op = "delete" /\ ~opCall.recursive
  /\ opAnswers = <<200>> /\ Len(opItems) = 2
  /\ opPc = "threw"

\* the requests of the call that ask for `request`
RequestsOf(request) == { i \in 1..Len(opRequests) : opRequests[i] = request }

\* the request at position i was answered with a 2xx response
Succeeded(i) == i <= Len(opAnswers) /\ ResponseOutcome(opAnswers[i]).kind = "ok"

\* '<source parent>/<name> copy.<ext>' for the files copy is called on
CopyPath(source) ==
  CASE source = "/new.txt" ->
         <<"/", "/", "n", "e", "w", " ", "c", "o", "p", "y", ".", "t", "x", "t">>
    [] source = "/dir/a.tar.gz" ->
         <<"/", "d", "i", "r", "/", "a", ".", "t", "a", "r", " ", "c", "o", "p", "y", ".",
           "g", "z">>

\* the path as the panel resolves it against the root "/": leading slashes dropped
RECURSIVE Relative(_)
Relative(chars) ==
  IF chars # <<>> /\ Head(chars) = "/" THEN Relative(Tail(chars)) ELSE chars

\* C22: copy issues the copy request and then, only if the copy succeeded and
\* the parent folders of source and destination differ, exactly one rename
\* request from '<source parent>/<name> copy.<ext>' to the destination path
\* (both as paths under the root "/" of the request); with the same parent folder the rename is
\* skipped and the call succeeds after the copy alone
C22_CopyThenRename ==
  (opCall.op = "copy" /\ opRequests # <<>>) =>
    LET copies == RequestsOf("copy")
        renames == RequestsOf("rename")
        sameParent == ParentFolder(opCall.path) = ParentFolder(opCall.dest)
    IN /\ Cardinality(copies) <= 1 /\ Cardinality(renames) <= 1
       /\ \A r \in renames :
            /\ \E c \in copies : c = r - 1 /\ Succeeded(c)
            /\ ~sameParent
            /\ Relative(opRenameFiles.from) = Relative(CopyPath(opCall.path))
            /\ Relative(opRenameFiles.to) = Relative(Chars(opCall.dest))
       /\ \A c \in copies : (Succeeded(c) /\ ~sameParent) => renames # {}
       /\ \A c \in copies : (Succeeded(c) /\ sameParent) =>
            opPc = "returned" /\ renames = {} /\ Len(opRequests) = c

\* a copy into another folder has sent its rename request, and it succeeded
C22_Witness ==
  /\ opCall.op = "copy" /\ opCall.path = "/dir/a.tar.gz" /\ opCall.dest = "/copy.txt"
  /\ opRequests = <<"copy", "rename">>
  /\ opPc = "returned"

\* the operations the bridge is said never to retry
Structural == {"createDirectory", "delete", "rename", "copy"}

\* no request of the call was issued twice
NoRequestTwice ==
  \A i, j \in 1..Len(opRequests) : opRequests[i] = opRequests[j] => i = j

\* the request at position i has failed: its fetch rejected or its status is an error
Failed(i) == i <= Len(opAnswers) /\ ResponseOutcome(opAnswers[i]).kind # "ok"

\* the request at position i is a preparing step: the listing before a
\* non-recursive delete, the delete(destination) before an overwriting rename or copy
PreStep(i) ==
  /\ i = 1
  /\ \/ opCall.op = "delete" /\ ~opCall.recursive
     \/ opCall.op \in {"rename", "copy"} /\ opCall.overwrite

\* C23 as stated: createDirectory, delete, rename, copy and writeFile issue no
\* request twice, and the failure of any request of createDirectory, delete,
\* rename or copy ends the call with an error and no later request
C23_AnyFailureSurfaces ==
  /\ opCall.op \in Structural \cup {"writeFile"} => NoRequestTwice
  /\ opCall.op \in Structural =>
       \A i \in 1..Len(opAnswers) : Failed(i) => opPc = "threw" /\ Len(opRequests) = i

\* C23, amended: no request is issued twice, and the failure of any request of
\* createDirectory, delete, rename or copy other than a preparing step ends
\* the call with that failure's error and no later request
C23_OwnFailureSurfaces ==
  /\ opCall.op \in Structural \cup {"writeFile"} => NoRequestTwice
  /\ opCall.op \in Structural =>
       \A i \in 1..Len(opAnswers) : (Failed(i) /\ ~PreStep(i)) =>
         /\ opPc = "threw"
         /\ Len(opRequests) = i
         /\ opResult = ResponseOutcome(opAnswers[i])

\* a copy into another folder whose copy request was answered 500 has ended
C23_Witness ==
  /\ opCall.op = "copy" /\ ~opCall.overwrite /\ opCall.dest = "/dir/new.txt"
  /\ opCall.path = "/new.txt"
  /\ opAnswers = <<500>>
  /\ opPc = "threw"

(***************************************************************************)
(* Directory reveal engine: failed loads and the order of the entries      *)
(***************************************************************************)
\* the listing requests issued for directory d that are not yet answered
Unanswered(l) == l.fresh + l.stale

\* a listing request of directory d fails in this step
ListingFails(d) ==
  /\ Unanswered(listings'[d]) < Unanswered(listings[d])
  /\ treeOp'.op = "failed" /\ treeOp'.dir = d

\* C27: when the listing behind a load of a directory fails, the directory's
\* visible list becomes the empty list and exactly one notification is
\* emitted; getChildren still returns a list; and no listing request is
\* issued for the directory again before the next refresh()
C27_FailedLoadShowsEmpty ==
  /\ [][\A d \in Dirs : ListingFails(d) =>
          /\ d \in DOMAIN visibleItemsByDirectory'
          /\ visibleItemsByDirectory'[d] = <<>>
          /\ notifications'[d] = notifications[d] + 1]_vars
  /\ [][\A d \in failedDirs \cap failedDirs' :
          Unanswered(listings'[d]) <= Unanswered(listings[d])]_vars
  /\ [](\A d \in failedDirs :
          (treeOp.op = "getChildren" /\ treeOp.dir = d /\ ~treeOp.stale) =>
            treeOp.ret \in Seq([label : STRING, isFile : BOOLEAN]))

\* a listing of a directory has failed and a later getChildren() of that
\* directory has returned without starting a load
C27_Witness ==
  /\ BridgeConnected
  /\ treeOp.op = "getChildren" /\ treeOp.dir \in failedDirs
  /\ ~treeOp.started /\ treeOp.ret = <<>>

\* the labels of the model in lower case, and their place in lexical order
FoldedRank(label) ==
  LET folded == IF label = "B" THEN "b" ELSE label
  IN CASE folded = "a" -> 1
       [] folded = "b" -> 2
       [] folded = "b.txt" -> 3
       [] folded = "c.txt" -> 4

\* the entries of the model that are files or symbolic links to files
FileLabels == {"b.txt", "c.txt"}

\* directories first, then files; each class by label, case ignored
InOrder(items) ==
  /\ \A i \in 1..Len(items) : items[i].isFile <=> items[i].label \in FileLabels
  /\ \A i, j \in 1..Len(items) : i < j =>
       \/ ~items[i].isFile /\ items[j].isFile
       \/ /\ items[i].isFile = items[j].isFile
          /\ FoldedRank(items[i].label) <= FoldedRank(items[j].label)

BothOrNeither == (serverApiUrl = Empty) <=> (authHeader = Empty)

\* the state is the one activate() has built: nothing has run since hydration
JustHydrated == ~refreshInterval /\ events = 0

\* C24: whatever hydration, connects, resets, clear-API-key commands, settings
\* changes and authentication-failure callbacks have happened, serverApiUrl
\* and authHeader are both empty or both non-empty; hydration sets them only
\* when panel URL, server identifier and API key are all present
C24_BothOrNeither ==
  /\ BothOrNeither
  /\ (JustHydrated /\ (serverApiUrl # Empty \/ authHeader # Empty)) =>
       (getPanelUrl # "" /\ cfgServerId # "" /\ cfgApiKey # "")

\* the addPanel() calls this step has taken past the server selection
Selecting ==
  { flow \in BagToSet(panelFlows') :
      flow.pc = "setServerId" /\ CopiesIn(flow, panelFlows') > CopiesIn(flow, panelFlows) }

\* the step in which a server is selected leaves the connection state built
\* from the panel URL, the selected identifier and the accepted key
SelectionConnects ==
  \A flow \in Selecting :
    /\ serverApiUrl' = <<HARD_CODED_PANEL_URL, "api", "client", "servers", flow.serverId, "files">>
    /\ authHeader' = <<"Bearer", flow.apiKey>>

\* a connect flow that ended before a server was selected
Abandoned ==
  panelLast.outcome \in {"invalid key", "transport failure", "not ok", "unexpected error",
                         "cancelled"}

\* C25: selecting a server after the key was accepted sets serverApiUrl to
\* <base>/api/client/servers/<id>/files and authHeader to "Bearer <key>"
\* whatever they held; a flow abandoned earlier (invalid key, transport
\* failure, non-2xx answer, cancelled selection) has left the connection
\* state as it was and has not called onConnected
C25_ConnectSetsOrLeaves ==
  /\ [][SelectionConnects]_vars
  /\ [](Abandoned => (~panelLast.changed /\ ~panelLast.notified))

\* a bridge call has been answered 401 in this step
Observed401 == opWarnings' = opWarnings + 1 \/ authWarnings' = authWarnings + 1

\* C26: after the reset command, and after a bridge call has observed a 401,
\* serverApiUrl and authHeader are both empty
C26_ClearedOnResetAnd401 ==
  [][(ResetCommand \/ Observed401) => (serverApiUrl' = Empty /\ authHeader' = Empty)]_vars

(***************************************************************************)
(* readDirectory: the order of the list it returns                         *)
(***************************************************************************)
\* the entry of a readDirectory result is of a file kind (File, or a
\* symbolic link to a file)
FileKind(item) == "File" \in item[2]

\* directories first, then files; each class by name, case ignored
ListedInOrder(items) ==
  \A i, j \in 1..Len(items) : i < j =>
    \/ ~FileKind(items[i]) /\ FileKind(items[j])
    \/ /\ FileKind(items[i]) = FileKind(items[j])
       /\ FoldedRank(items[i][1]) <= FoldedRank(items[j][1])

\* C29: the list readDirectory returns has every directory-kind entry before
\* every file-kind entry and, within each kind, the names in ascending
\* case-insensitive lexical order, whatever order the panel listed them in
C29_ListingInOrder ==
  (opCall.op = "readDirectory" /\ opPc = "returned") => ListedInOrder(opItems)

(***************************************************************************)
(* Status poller: how the refresh body ends                                *)
(***************************************************************************)
\* this step is a requestRefresh() that starts a refresh() body
RefreshStarts == callFlip' # callFlip /\ ~refreshInFlight

\* this step is the end of a refresh() body that had been awaiting its fetch
FetchedBodyEnds == refreshBodies' < refreshBodies

\* C30: refresh() never raises. A body started while serverApiUrl or
\* authHeader is empty shows "No Server", hides the open-panel button and
\* ends without a fetch; a body whose fetch fails (no answer, a non-2xx
\* status, an unusable body) ends showing "Offline"; a current_state of
\* "starting" is shown as "Running"; the end of a body releases
\* refreshInFlight, and a set refreshInFlight is always released
C30_RefreshNeverRaises ==
  /\ [](~refreshLast.raised)
  /\ [][(RefreshStarts /\ (serverApiUrl' = Empty \/ authHeader' = Empty)) =>
          /\ statusText' = "No Server"
          /\ ~openButtonShown'
          /\ refreshLast' = NoFetch
          /\ refreshBodies' = refreshBodies
          /\ ~refreshInFlight']_vars
  /\ [][FetchedBodyEnds =>
          /\ refreshLast'.answer \in ResourceFailures => statusText' = "Offline"
          /\ refreshLast'.answer = "starting" => statusText' = "Running"
          /\ ~refreshInFlight']_vars
  /\ (refreshInFlight ~> ~refreshInFlight)

\* a refresh() whose fetch got no answer has ended: the indicator shows
\* Offline and the in-flight flag is released
C30_Witness ==
  /\ refreshLast = [answer |-> "transport failure", raised |-> FALSE]
  /\ statusText = "Offline"
  /\ ~refreshInFlight

(***************************************************************************)
(* Status poller: power signals                                            *)
(***************************************************************************)
\* this step is the end of a sendPowerSignal that had been awaiting its fetch
PowerSignalEnds == powerInFlight' < powerInFlight

\* C31: sendPowerSignal posts no request while serverApiUrl or authHeader is
\* empty; when the power endpoint answers 204 the call schedules exactly one
\* requestRefresh() 750ms later and shows the confirmation; for any other
\* answer, or no answer at all, it schedules nothing and shows a failure
\* message
C31_PowerSignal ==
  /\ [][(serverApiUrl = Empty \/ authHeader = Empty) =>
          powerInFlight' <= powerInFlight]_vars
  /\ [][PowerSignalEnds =>
          IF powerLast'.answer = "204"
          THEN /\ statusTimers' = SetTimeout(statusTimers, PowerDelay)
               /\ powerLast'.message = "information"
          ELSE /\ statusTimers' = statusTimers
               /\ powerLast'.message = "error"]_vars

\* a power signal has been answered 204 and its refresh is scheduled
C31_Witness ==
  /\ powerLast = [answer |-> "204", message |-> "information"]
  /\ statusTimers[PowerDelay] = 1

(***************************************************************************)
(* Drag and drop: the bridge calls of a batch                              *)
(***************************************************************************)
\* the dragged items that are files, in the order of the batch
IsFileItem(item) == item.isFile
DraggedFiles == SelectSeq(dropBatch, IsFileItem)

\* the calls of the batch of one kind, in order
IsRead(call) == call.op = "readFile"
IsThrown(call) == call.ended = "threw"
ReadCalls == SelectSeq(dropCalls, IsRead)
ThrownCalls == SelectSeq(dropCalls, IsThrown)

\* the item the call at position k belongs to: the one read last
RECURSIVE ItemRead(_)
ItemRead(k) == IF dropCalls[k].op = "readFile" THEN dropCalls[k].uri ELSE ItemRead(k - 1)

\* the call at position k is the one the loop makes after the call before it
InItsPlace(k) ==
  LET call == dropCalls[k]
  IN CASE call.op = "readFile" ->
            \E item \in DragItems : item.isFile /\ item.uri = call.uri
       [] call.op = "writeFile" ->
            /\ k > 1 /\ dropCalls[k - 1].op = "readFile" /\ dropCalls[k - 1].ended = "returned"
            /\ call.uri = joinPath(dropTarget, dropCalls[k - 1].uri[Len(dropCalls[k - 1].uri)])
            /\ call.create /\ call.overwrite
       [] call.op = "delete" ->
            /\ k > 2 /\ dropCalls[k - 1].op = "writeFile" /\ dropCalls[k - 1].ended = "returned"
            /\ dropCalls[k - 2].op = "readFile" /\ dropCalls[k - 2].ended = "returned"
            /\ call.uri = dropCalls[k - 2].uri

\* the call at position k, once it has returned, is followed by the next step
\* of its item by the time the handler is done
Followed(k) ==
  (dropCalls[k].ended = "returned" /\ dropCalls[k].op # "delete") =>
    /\ k < Len(dropCalls)
    /\ dropCalls[k + 1].op = IF dropCalls[k].op = "readFile" THEN "writeFile" ELSE "delete"

\* C32: for each dragged file the handler calls readFile(source), then
\* writeFile(target/name, {create, overwrite}), then delete(source), the
\* delete only after the read and the write have returned; dragged
\* directories cause no call; a failed call is reported for its item and the
\* items after it are still processed; the tree is refreshed once, when the
\* whole batch is done
C32_DropIsReadWriteDelete ==
  /\ \A k \in DOMAIN dropCalls : InItsPlace(k)
  /\ dropRefreshes = IF dropPc = "done" /\ dropBatch # <<>> THEN 1 ELSE 0
  /\ dropPc = "done" =>
       /\ \A k \in DOMAIN dropCalls : dropCalls[k].ended # "pending" /\ Followed(k)
       /\ Len(ReadCalls) = Len(DraggedFiles)
       /\ \A i \in DOMAIN ReadCalls : ReadCalls[i].uri = DraggedFiles[i].uri
       /\ Len(dropReported) = Len(ThrownCalls)
       /\ \A i \in DOMAIN dropReported :
            \E k \in DOMAIN dropCalls :
              /\ dropCalls[k] = ThrownCalls[i]
              /\ dropReported[i] = ItemRead(k)[Len(ItemRead(k))]

\* a batch of two files is done: the write of the first has failed and was
\* reported, and the second file was still read, written and deleted
C32_Witness ==
  /\ dropPc = "done" /\ Len(dropBatch) = 2
  /\ dropBatch[1].isFile /\ dropBatch[2].isFile
  /\ Len(dropCalls) = 5
  /\ dropCalls[2].ended = "threw"
  /\ dropCalls[5].op = "delete" /\ dropCalls[5].ended = "returned"
  /\ dropReported = <<dropBatch[1].label>>
  /\ dropRefreshes = 1

\* every bridge call of the batch has returned
AllReturned == \A k \in DOMAIN dropCalls : dropCalls[k].ended = "returned"

\* C36: once a drop whose bridge calls have all returned is done, every
\* dragged file is held by the panel under its source path or under its
\* destination path, also when the two paths are the same
C36_MovedFileIsSomewhere ==
  (dropPc = "done" /\ AllReturned) =>
    \A i \in DOMAIN DraggedFiles :
      \/ DraggedFiles[i].uri \in remoteFiles
      \/ joinPath(dropTarget, DraggedFiles[i].label) \in remoteFiles

(***************************************************************************)
(* The bridge after a disconnect                                           *)
(***************************************************************************)
\* one step of readFile calls fetch: the first attempt of a call, or a retry
ReadFetches ==
  \/ readCalls' > readCalls /\ readFetches' > 0
  \/ readCalls' = readCalls /\ readFetches' > readFetches

\* one step of another operation calls fetch: the first request of a call, or
\* a later request of the call under way
OpFetches ==
  \/ opCalls' > opCalls /\ Len(opRequests') > 0
  \/ opCalls' = opCalls /\ Len(opRequests') > Len(opRequests)

\* clearRuntimeState has run and no connect has followed
Disconnected == serverApiUrl = Empty /\ authHeader = Empty

\* C33: the step that disconnects leaves every call under way where it is, and
\* in no step taken while disconnected does the bridge call fetch, be it for a
\* new call or for a later step of a call begun before the disconnect
C33_NoFetchAfterDisconnect ==
  /\ [][(~Disconnected /\ Disconnected') =>
          (opPc' = opPc /\ readPc' = readPc)]_vars
  /\ [][Disconnected => ~(ReadFetches \/ OpFetches)]_vars

(***************************************************************************)
(* The stat cache across connections                                       *)
(***************************************************************************)
\* the step is a stat() call that returns the cached entry of its path
StatReturnsCached ==
  /\ opCalls' > opCalls
  /\ opCall'.op = "stat"
  /\ opPc' = "returned"
  /\ StatCacheKey(opCall'.path) \in DOMAIN responseCache

\* the connection was cleared by the reset command and made anew by addPanel
Reconnected == events = 2 /\ onConnectedCalls > 0 /\ serverApiUrl # Empty

\* the entry was stored while another server than the present one was connected
OfAnotherServer(key) == storedUnder[key] # Empty /\ storedUnder[key] # serverApiUrl

\* C34: a cache entry stat() returns after a disconnect and a connect to a
\* different server was not stored while the previous server was connected
C34_NoEntryOfEarlierConnection ==
  [][(Reconnected /\ StatReturnsCached) =>
       ~OfAnotherServer(StatCacheKey(opCall'.path))]_vars

(***************************************************************************)
(* Status refresh: trailing refreshes                                      *)
(***************************************************************************)
\* the trailing refreshes that are pending: the queued flag and the settle
\* timers that were scheduled and have not fired
PendingTrailing == (IF refreshQueued THEN 1 ELSE 0) + statusTimers[SettleDelay]

\* C35: at any time at most one trailing status refresh is pending
C35_TrailingNeverStack == PendingTrailing <= 1

(***************************************************************************)
(* Directory reveal engine: the in-flight map                              *)
(***************************************************************************)
\* a listing started for d since the last refresh() has not completed
FreshOutstanding(d) == listings[d].fresh > 0

\* C37: loadInFlightByDirectory holds an entry for a directory exactly when a
\* listing started for it since the last refresh() is outstanding; so the end
\* of a load started before a refresh() removes no entry of a later load
C37_InFlightMapExact ==
  \A d \in Dirs : LoadInFlight(d) <=> FreshOutstanding(d)

(***************************************************************************)
(* The stat cache and the mutating operations                              *)
(***************************************************************************)
\* the step is taken by a call of one of the operations: the call itself, or
\* the end of one of its fetches
StepOf(ops) ==
  /\ opCalls' > opCalls \/ opAnswers' # opAnswers
  /\ opCall'.op \in ops

\* the step changes no entry of the cache and no hit counter
CacheUnchanged ==
  /\ responseCache' = responseCache
  /\ responseCacheHits' = responseCacheHits

\* the step removes and updates no entry; at most it adds the entry of path
CacheKeptBut(path) ==
  /\ \A key \in DOMAIN responseCache :
       key \in DOMAIN responseCache' /\ responseCache'[key] = responseCache[key]
  /\ DOMAIN responseCache' \subseteq DOMAIN responseCache \cup {StatCacheKey(path)}

\* the step is a stat() call on a path whose entry is cached, made after a
\* delete or rename of that path has returned
StatAfterMutation ==
  /\ opCalls' > opCalls
  /\ opCall'.op = "stat"
  /\ opFollows'
  /\ StatCacheKey(opCall'.path) \in DOMAIN responseCache

\* the step ends the call at once, without a request, as a hit of the entry
ReturnsCached ==
  /\ opPc' = "returned"
  /\ opRequests' = <<>>
  /\ responseCache'[StatCacheKey(opCall'.path)] = responseCache[StatCacheKey(opCall'.path)]
  /\ responseCacheHits'[StatCacheKey(opCall'.path)]
       = responseCacheHits[StatCacheKey(opCall'.path)] + 1

C39_NoFetchWithoutKey ==
  [][authHeader = Empty => ~(ReadFetches \/ OpFetches)]_vars

(***************************************************************************)
(* Best-effort pre-steps                                                   *)
(***************************************************************************)
\* the request at position i of the call asks for `request`
Requested(i, request) == i <= Len(opRequests) /\ opRequests[i] = request

\* the request at position i has its answer, whatever it is
Answered(i) == i <= Len(opAnswers)

\* C40: the failure of a preparing step is swallowed and the call goes on.
\* delete(recursive: false) whose listing fails takes the target for empty and
\* issues the delete request; rename and copy with overwrite issue
\* delete(destination) first and, whatever its answer, their own request next;
\* writeFile with create = true whose stat probe fails in any way takes the
\* file for absent and issues the pre-create and then the upload
C40_PreStepsAreBestEffort ==
  /\ (opCall.op = "delete" /\ ~opCall.recursive /\ opRequests # <<>>) =>
       /\ Requested(1, "list")
       /\ Failed(1) => opItems = <<>> /\ Requested(2, "delete")
  /\ (opCall.op \in {"rename", "copy"} /\ opCall.overwrite /\ opRequests # <<>>) =>
       /\ Requested(1, "delete")
       /\ Answered(1) => Requested(2, opCall.op)
  /\ (opCall.op = "writeFile" /\ opCall.create /\ Requested(1, "list") /\ Failed(1)) =>
       /\ ~opFileExists
       /\ Requested(2, "write-empty")
       /\ Answered(2) => Requested(3, "write")

\* writeFile with create = true has returned: its stat probe was answered 500,
\* its pre-create was rejected and its upload was accepted
C40_Witness ==
  /\ opCall.op = "writeFile" /\ opCall.create
  /\ opRequests = <<"list", "write-empty", "write">>
  /\ opAnswers = <<500, 0, 200>>
  /\ opPc = "returned"
====
